---- MODULE Spec2Model ----
(***************************************************************************)
(* A model of bhunter (src/main.go): the Bitbucket client's paginated      *)
(* list calls, the creator lookup, the bounded-concurrency enrichment of   *)
(* processRepositoriesConcurrently, the filter pass over repository names, *)
(* the age functions, and the output passes (stale-branch feed, summary    *)
(* statistics, CSV rows).                                                  *)
(***************************************************************************)
EXTENDS Integers, Sequences, FiniteSets, TLC

\* ------------------------------------------------------------------ bounds
\* Largest number of repositories handed to processRepositoriesConcurrently.
MaxK == 2
\* Largest concurrency limit (capacity of the semaphore channel).
MaxL == 2
\* Largest number of pages the server holds for one list endpoint.
MaxPages == 3
\* Largest number of values on one page.
MaxPageLen == 1
\* Largest number of repositories handed to the filter pass.
MaxNames == 3
\* The model follows at most this many cursors (more than the server has
\* pages, so only a traversal that revisits a page is cut short).
MaxRequests == MaxPages + 2

\* The longest commit list the server returns for one creator lookup taken
\* alone.
MaxCommits == 2

\* The longest branch list the server returns to an output pass.
MaxBranches == 2

\* ---------------------------------------------------------------- strings
\* A string is the sequence of its characters (runes). An ASCII character is
\* written as itself; a character outside ASCII is written by its code point,
\* "U+00C9" for the capital E with acute accent. The alphabet is ASCII and the
\* Latin-1 supplement.
\* The capital letters of the Latin-1 supplement, U+00C0..U+00DE without the
\* multiplication sign U+00D7, and their small letters, 32 code points higher.
Latin1Upper ==
  <<
    "U+00C0", "U+00C1", "U+00C2", "U+00C3", "U+00C4", "U+00C5",
    "U+00C6", "U+00C7", "U+00C8", "U+00C9", "U+00CA", "U+00CB",
    "U+00CC", "U+00CD", "U+00CE", "U+00CF", "U+00D0", "U+00D1",
    "U+00D2", "U+00D3", "U+00D4", "U+00D5", "U+00D6", "U+00D8",
    "U+00D9", "U+00DA", "U+00DB", "U+00DC", "U+00DD", "U+00DE">>

Latin1Lower ==
  <<
    "U+00E0", "U+00E1", "U+00E2", "U+00E3", "U+00E4", "U+00E5",
    "U+00E6", "U+00E7", "U+00E8", "U+00E9", "U+00EA", "U+00EB",
    "U+00EC", "U+00ED", "U+00EE", "U+00EF", "U+00F0", "U+00F1",
    "U+00F2", "U+00F3", "U+00F4", "U+00F5", "U+00F6", "U+00F8",
    "U+00F9", "U+00FA", "U+00FB", "U+00FC", "U+00FD", "U+00FE">>

\* unicode.ToLower on one character of the alphabet (strings.ToLower maps
\* every rune with it, src/main.go:333).
ToLowerChar(c) ==
  CASE c = "A" -> "a" [] c = "B" -> "b" [] c = "C" -> "c" [] c = "D" -> "d"
    [] c = "E" -> "e" [] c = "F" -> "f" [] c = "G" -> "g" [] c = "H" -> "h"
    [] c = "I" -> "i" [] c = "J" -> "j" [] c = "K" -> "k" [] c = "L" -> "l"
    [] c = "M" -> "m" [] c = "N" -> "n" [] c = "O" -> "o" [] c = "P" -> "p"
    [] c = "Q" -> "q" [] c = "R" -> "r" [] c = "S" -> "s" [] c = "T" -> "t"
    [] c = "U" -> "u" [] c = "V" -> "v" [] c = "W" -> "w" [] c = "X" -> "x"
    [] c = "Y" -> "y" [] c = "Z" -> "z"
    [] \E k \in DOMAIN Latin1Upper : Latin1Upper[k] = c ->
         Latin1Lower[CHOOSE k \in DOMAIN Latin1Upper : Latin1Upper[k] = c]
    [] OTHER -> c

\* strings.ToLower
ToLower(str) == [j \in 1..Len(str) |-> ToLowerChar(str[j])]

\* strings.Contains: substr occurs in str at some offset (the empty string
\* occurs in every string).
Contains(str, substr) ==
  \E k \in 0..(Len(str) - Len(substr)) : SubSeq(str, k + 1, k + Len(substr)) = substr

\* A variant that compares the two names as they are written.
matchesRepoName_CaseSensitive(repoName, searchName) == Contains(repoName, searchName)

\* matchesRepoName (src/main.go:331-334): case-insensitive partial match.
matchesRepoName(repoName, searchName) ==
  Contains(ToLower(repoName), ToLower(searchName))

\* The repository names the server holds, and the terms given on the
\* command line.
ApiCore == <<"a", "p", "i", "-", "c", "o", "r", "e">>
WebUi == <<"w", "e", "b", "-", "u", "i">>
ArchiveOld == <<"a", "r", "c", "h", "i", "v", "e", "-", "o", "l", "d">>
ApiDocs == <<"A", "P", "I", "-", "D", "o", "c", "s">>
CafeMenu == <<"C", "A", "F", "U+00C9", "-", "m", "e", "n", "u">>
Catalogue == <<ArchiveOld, ApiCore, WebUi, ApiDocs, CafeMenu>>
TermArchive == <<"a", "r", "c", "h", "i", "v", "e">>
TermApi == <<"a", "p", "i">>
TermUI == <<"U", "I">>
TermCafe == <<"c", "a", "f", "U+00E9">>
TermPool == {TermArchive, TermApi, TermUI, TermCafe}

\* ------------------------------------------------------------- time.Time
\* An instant is a number of hours since 1970-01-01T00:00 UTC; a duration is
\* a number of hours.  Instants are less than 292 years apart, so that
\* time.Sub does not saturate, and all of them are in UTC.
Hour == 1

\* The number of days from 1970-01-01 to the civil date y-m-d; d may lie
\* outside the month, as in time.Date, which normalises it.
DaysFromCivil(y, m, d) ==
  LET yy == IF m <= 2 THEN y - 1 ELSE y
      era == yy \div 400
      yoe == yy - era * 400
      mp == IF m > 2 THEN m - 3 ELSE m + 9
      doy == (153 * mp + 2) \div 5 + d - 1
      doe == yoe * 365 + yoe \div 4 - yoe \div 100 + doy
  IN era * 146097 + doe - 719468

\* time.Date(y, m, d, h, 0, 0, 0, time.UTC).
Date(y, m, d, h) == (DaysFromCivil(y, m, d) * 24 + h) * Hour

\* The civil fields of an instant: Time.Year, Time.Month, Time.Day, Time.Hour.
Civil(t) ==
  LET z == (t \div (24 * Hour)) + 719468
      era == z \div 146097
      doe == z - era * 146097
      yoe == (doe - doe \div 1460 + doe \div 36524 - doe \div 146096) \div 365
      doy == doe - (365 * yoe + yoe \div 4 - yoe \div 100)
      mp == (5 * doy + 2) \div 153
      m == IF mp < 10 THEN mp + 3 ELSE mp - 9
  IN [y |-> yoe + era * 400 + (IF m <= 2 THEN 1 ELSE 0),
      m |-> m,
      d |-> doy - (153 * mp + 2) \div 5 + 1,
      h |-> (t \div Hour) % 24]

\* Time.AddDate(0, 0, days): the civil date moved by days, normalised.
AddDate(t, days) ==
  LET c == Civil(t) IN Date(c.y, c.m, c.d + days, c.h)

\* Time.Format("2006-01-02T15:04:05Z"): the civil fields of the instant,
\* written down in this order.
Format(t) == LET c == Civil(t) IN <<c.y, c.m, c.d, c.h>>

\* The instant the server reads from a timestamp in that layout.
ParseTimestamp(str) == Date(str[1], str[2], str[3], str[4])

\* The zero time.Time, January 1 of year 1, 00:00 UTC: what a timestamp holds
\* when the JSON has no such field.
ZeroTime == Date(1, 1, 1, 0)

\* time.Since(t) when the clock shows now: now.Sub(t), which stops at the
\* largest and the smallest Duration, 2562047 whole hours either way.
Since(now, t) ==
  LET d == now - t
      limit == 2562047 * Hour
  IN IF d > limit THEN limit ELSE IF d < 0 - limit THEN 0 - limit ELSE d

\* A variant that counts a timestamp of exactly the threshold as old.
isOlderThan_AtLeast(now, t, months) ==
  Since(now, t) >= months * 30 * 24 * Hour

\* isOlderThan (src/main.go:287-289).
isOlderThan(now, t, months) ==
  Since(now, t) > months * 30 * 24 * Hour

\* A variant without the day-of-month adjustment.
calculateMonthsDifference_NoAdjustment(start, end) ==
  LET years == Civil(end).y - Civil(start).y
      months == Civil(end).m - Civil(start).m
  IN years * 12 + months

\* calculateMonthsDifference (src/main.go:630-641).
calculateMonthsDifference(start, end) ==
  LET years == Civil(end).y - Civil(start).y
      months == Civil(end).m - Civil(start).m
      totalMonths == years * 12 + months
  IN IF Civil(end).d < Civil(start).d THEN totalMonths - 1 ELSE totalMonths

\* ------------------------------------------------------- the HTTP responses
\* What the server does with one GET request: "ok" (status 200 and a JSON
\* body of the expected shape), "transport" (httpClient.Do fails), "status"
\* (a status other than 200) or "malformed" (200 with a body that
\* json.Unmarshal rejects).  values is the "values" array of the body and
\* next its "next" cursor: the URL of a page, or NoURL when absent.
\* The empty URL "" (a URL is the number of the page it names).
NoURL == 0

Response(kind, values, next) == [kind |-> kind, values |-> values, next |-> next]

\* The Go nil error.
NoError == "nil"

\* makeRequest (src/main.go:83-103): the body, or the transport / status error.
makeRequest(resp) ==
  IF resp.kind = "transport" THEN [data |-> "nil", err |-> "transport error"]
  ELSE IF resp.kind = "status" THEN [data |-> "nil", err |-> "API request failed with status"]
  ELSE [data |-> resp, err |-> NoError]

\* json.Unmarshal of a body into the {values, next} response struct.
Unmarshal(data) ==
  IF data.kind = "malformed"
  THEN [values |-> <<>>, next |-> NoURL, err |-> "json: cannot unmarshal"]
  ELSE [values |-> data.values, next |-> data.next, err |-> NoError]

\* --------------------------------------------------------- getFirstCommit
\* What the server answers to the two requests of one creator lookup:
\* parts is the number of "/"-separated parts of the repository's full name,
\* repo the response to the repository GET, commits the response to the
\* commit-list GET (its values are the authors' display names, newest first).
Lookup(parts, repo, commits) == [parts |-> parts, repo |-> repo, commits |-> commits]

\* The created_on of the repositories of the catalogue.
CreatedOn == Date(2023, 1, 15, 10)

\* The repository GET answers with the repository: its values hold created_on.
OkRepo == Response("ok", <<CreatedOn>>, NoURL)

LookupScenarios ==
  { Lookup(1, OkRepo, Response("ok", <<"alice">>, NoURL)),
    Lookup(2, Response("status", <<>>, NoURL), Response("ok", <<"alice">>, NoURL)),
    Lookup(2, OkRepo, Response("transport", <<>>, NoURL)),
    Lookup(2, OkRepo, Response("malformed", <<>>, NoURL)),
    Lookup(2, OkRepo, Response("ok", <<>>, NoURL)),
    Lookup(2, OkRepo, Response("ok", <<"alice", "">>, NoURL)),
    Lookup(2, OkRepo, Response("ok", <<"", "bob">>, 1)) }

\* A variant that follows the next cursor of the commit list once.
getFirstCommit_FollowsNext(s) ==
  IF s.parts # 2
  THEN [author |-> "", err |-> "invalid repository name format", reqs |-> <<>>]
  ELSE LET r == makeRequest(s.repo) IN
    IF r.err # NoError THEN [author |-> "", err |-> r.err, reqs |-> <<"repository">>]
    ELSE LET ru == Unmarshal(r.data) IN
      IF ru.err # NoError THEN [author |-> "", err |-> ru.err, reqs |-> <<"repository">>]
      ELSE LET c == makeRequest(s.commits) IN
        IF c.err # NoError
        THEN [author |-> "", err |-> c.err, reqs |-> <<"repository", "commits">>]
        ELSE LET cu == Unmarshal(c.data)
                 reqs == IF cu.next = NoURL THEN <<"repository", "commits">>
                         ELSE <<"repository", "commits", "commits">>
             IN
          IF cu.err # NoError
          THEN [author |-> "", err |-> cu.err, reqs |-> <<"repository", "commits">>]
          ELSE IF Len(cu.values) = 0
          THEN [author |-> "", err |-> "no commits found near creation date",
                reqs |-> reqs]
          ELSE [author |-> cu.values[Len(cu.values)], err |-> NoError, reqs |-> reqs]

\* getFirstCommit (src/main.go:175-219): the commit (its author's display
\* name), the error, and the requests issued, in order.
getFirstCommit(s) ==
  IF s.parts # 2
  THEN [author |-> "", err |-> "invalid repository name format", reqs |-> <<>>]
  ELSE LET r == makeRequest(s.repo) IN
    IF r.err # NoError THEN [author |-> "", err |-> r.err, reqs |-> <<"repository">>]
    ELSE LET ru == Unmarshal(r.data) IN
      IF ru.err # NoError THEN [author |-> "", err |-> ru.err, reqs |-> <<"repository">>]
      ELSE LET c == makeRequest(s.commits) IN
        IF c.err # NoError
        THEN [author |-> "", err |-> c.err, reqs |-> <<"repository", "commits">>]
        ELSE LET cu == Unmarshal(c.data) IN
          IF cu.err # NoError
          THEN [author |-> "", err |-> cu.err, reqs |-> <<"repository", "commits">>]
          ELSE IF Len(cu.values) = 0
          THEN [author |-> "", err |-> "no commits found near creation date",
                reqs |-> <<"repository", "commits">>]
          ELSE [author |-> cu.values[Len(cu.values)], err |-> NoError,
                reqs |-> <<"repository", "commits">>]

\* A variant whose window opens on the creation date itself.
CommitListQuery_FromCreation(created) ==
  [pagelen |-> 100,
   since |-> Format(created),
   until |-> Format(AddDate(created, 30))]

\* The query of the commit-list request getFirstCommit issues for a
\* repository created at the given instant (src/main.go:186-196).
CommitListQuery(created) ==
  [pagelen |-> 100,
   since |-> Format(AddDate(created, -1)),
   until |-> Format(AddDate(created, 30))]

\* The sentinel creator (src/main.go:405).
UnableToDetermine == "(unable to determine)"

\* A variant that copies the author without falling back to the sentinel.
RepositoryResult_NoSentinel(repo, s) ==
  LET first == getFirstCommit(s) IN
  [Repository |-> repo, Creator |-> first.author, Error |-> first.err]

\* processRepositoryConcurrently (src/main.go:404-418): the RepositoryResult
\* a task builds from its lookup.
RepositoryResult(repo, s) ==
  LET first == getFirstCommit(s) IN
  [Repository |-> repo,
   Creator |-> IF first.err = NoError /\ first.author # "" THEN first.author
               ELSE UnableToDetermine,
   Error |-> first.err]

\* ------------------------------------------------------------------ state
VARIABLES
  repos,           \* the []Repository handed to processRepositoriesConcurrently
  maxConcurrency,  \* its maxConcurrency argument
  hung,            \* the task whose request the server leaves unanswered (0: none)
  spawned,         \* how many goroutines the "Start workers" loop has started
  tpc,             \* where each worker goroutine is
  served,          \* what the server answered to each task's lookup
  semaphore,       \* number of tokens in the semaphore channel
  results,         \* the buffer of the results channel
  closed,          \* whether the results channel is closed
  panicked,        \* whether a goroutine panicked (send on a closed channel)
  wg,              \* the WaitGroup counter
  cpc,             \* where the closing goroutine is
  mpc,             \* where processRepositoriesConcurrently itself is
  repoResults,     \* the slice it collects into
  fn,              \* the paginated list call under way
  pages,           \* the server's pages of that list endpoint
  url,             \* the loop variable url of the list call
  all,             \* its accumulator (allRepos / allBranches)
  requests,        \* the URLs it has requested, in order
  ppc,             \* where the list call is
  ret,             \* what it returned
  netlog,          \* the requests issued for repositories: <<endpoint, repository>>
  cmd,             \* main: the rest of the command line, and the environment
  allRepos,        \* main: the list getRepositories returned
  includeTerms,    \* main: the terms of --include
  excludeTerms,    \* main: the terms of --exclude
  warned,          \* main: whether the precedence warning was printed
  mode,            \* main: "output", "summary", "csv" or "full"
  repoOnly,        \* main: the --repo-only flag
  phase,           \* main: where the all-repositories flow is
  outIdx,          \* main: how many repositories the output pass has handled
  listing,         \* output passes: what getBranches returned for the last repository
  stdout,          \* output passes: the lines printed, in order
  stats,           \* calculateSummaryStats: its SummaryStats
  fcall,           \* a call of a function taken alone: its name and arguments
  fret             \* that call's result

\* The state of processRepositoriesConcurrently.
ovars == <<repos, maxConcurrency, hung, spawned, tpc, served, semaphore, results,
           closed, panicked, wg, cpc, mpc, repoResults>>
\* The state of a paginated list call.
pvars == <<fn, pages, url, all, requests, ppc, ret>>

\* The state of main.
mvars == <<cmd, allRepos, includeTerms, excludeTerms, warned, mode, repoOnly, phase, outIdx>>

\* The state of the output passes and of the calls taken alone.
xvars == <<listing, stdout, stats, fcall, fret>>

vars == <<ovars, pvars, netlog, mvars, xvars>>

K == Len(repos)
\* A variant whose results channel has maxConcurrency slots.
ResultsCapacity_OfLimit == maxConcurrency

\* results := make(chan RepositoryResult, len(repos)) (src/main.go:422).
ResultsCapacity == K

\* The worker goroutines: one per repository once the call is entered.
Tasks == DOMAIN tpc
\* No lookup has returned yet.
NotServed == Lookup(0, Response("none", <<>>, NoURL), Response("none", <<>>, NoURL))

\* processRepositoriesConcurrently is entered (src/main.go:421-424).
InitOrchestrator(rs, limit, h) ==
  /\ repos = rs
  /\ maxConcurrency = limit
  /\ hung = h
  /\ spawned = 0
  /\ tpc = [i \in 1..Len(rs) |-> "unborn"]
  /\ served = [i \in 1..Len(rs) |-> NotServed]
  /\ semaphore = 0
  /\ results = <<>>
  /\ closed = FALSE
  /\ panicked = FALSE
  /\ wg = 0
  /\ cpc = "unborn"
  /\ mpc = "spawn"
  /\ repoResults = <<>>
  /\ netlog = {}

\* No list call is under way.
NoListCall ==
  /\ fn = "none"
  /\ pages = <<>>
  /\ url = NoURL
  /\ all = <<>>
  /\ requests = <<>>
  /\ ppc = "idle"
  /\ ret = [values |-> <<>>, err |-> NoError]

\* No repository is named on the command line (*repoName == "").
NoName == <<>>

\* bhunter -u user -p secret, with no config file, an environment without
\* credentials and standard output not a terminal.  help is -h, createConfig
\* -c, flags whether -u and -p are given, file what loadConfigFromFile finds
\* ("none": no file that parses; "partial": one without the username or the
\* app password; "complete": one with both), env whether BITBUCKET_USERNAME
\* and BITBUCKET_APP_PASSWORD are set, repoName the value of -r, terminal
\* whether the colour functions colour, writeError what os.WriteFile returns.
\* A command line with only one of -u and -p runs as one with neither: the
\* file is tried, and it counts as complete when it holds the other field.
PlainCommand ==
  [help |-> FALSE, createConfig |-> FALSE, flags |-> TRUE, file |-> "none",
   env |-> FALSE, repoName |-> NoName, terminal |-> FALSE, writeError |-> NoError]

\* main is not running.
NoMain ==
  /\ cmd = PlainCommand
  /\ allRepos = <<>>
  /\ includeTerms = {}
  /\ excludeTerms = {}
  /\ warned = FALSE
  /\ mode = "none"
  /\ repoOnly = FALSE
  /\ phase = "none"
  /\ outIdx = 0

\* SummaryStats (src/main.go:532-539), all zero.
NoStats ==
  [TotalRepos |-> 0, OldRepos |-> 0, RecentRepos |-> 0,
   TotalBranches |-> 0, OldBranches |-> 0, RecentBranches |-> 0]

\* What getBranches returned: the branches and the error.
Listing(branches, err) == [branches |-> branches, err |-> err]

\* No function is called alone.
NoCall ==
  /\ fcall = [fn |-> "none"]
  /\ fret = [done |-> FALSE]

\* No output pass is running.
NoOutput ==
  /\ listing = Listing(<<>>, NoError)
  /\ stdout = <<>>
  /\ stats = NoStats

Init ==
  /\ \E k \in 0..MaxK, limit \in 1..MaxL :
       InitOrchestrator(SubSeq(Catalogue, 1, k), limit, 0)
  /\ NoListCall
  /\ NoMain
  /\ NoOutput
  /\ NoCall

\* One iteration of the "Start workers" loop: wg.Add(1); go func(r) {...}(repo).
Spawn ==
  /\ mpc = "spawn"
  /\ spawned < K
  /\ spawned' = spawned + 1
  /\ wg' = wg + 1
  /\ tpc' = [tpc EXCEPT ![spawned + 1] = "acquire"]
  /\ UNCHANGED <<repos, maxConcurrency, hung, served, semaphore, results, closed,
                 panicked, cpc, mpc, repoResults>>
  /\ UNCHANGED <<pvars, mvars, netlog, xvars>>

\* go func() { wg.Wait(); close(results) }() is started after the loop.
StartCloser ==
  /\ mpc = "spawn"
  /\ spawned = K
  /\ cpc' = "wait"
  /\ mpc' = "collect"
  /\ UNCHANGED <<repos, maxConcurrency, hung, spawned, tpc, served, semaphore,
                 results, closed, panicked, wg, repoResults>>
  /\ UNCHANGED <<pvars, mvars, netlog, xvars>>

\* A variant that never blocks on the semaphore.
Acquire_Unbounded(i) ==
  /\ tpc[i] = "acquire"
  /\ semaphore' = semaphore + 1
  /\ tpc' = [tpc EXCEPT ![i] = "lookup"]
  /\ UNCHANGED <<repos, maxConcurrency, hung, spawned, served, results, closed,
                 panicked, wg, cpc, mpc, repoResults>>
  /\ UNCHANGED <<pvars, mvars, netlog, xvars>>

\* A variant whose semaphore has one slot fewer than maxConcurrency.
Acquire_OneSlotShort(i) ==
  /\ tpc[i] = "acquire"
  /\ semaphore < maxConcurrency - 1
  /\ semaphore' = semaphore + 1
  /\ tpc' = [tpc EXCEPT ![i] = "lookup"]
  /\ UNCHANGED <<repos, maxConcurrency, hung, spawned, served, results, closed,
                 panicked, wg, cpc, mpc, repoResults>>
  /\ UNCHANGED <<pvars, mvars, netlog, xvars>>

\* semaphore <- struct{}{}: blocks while the channel holds maxConcurrency tokens.
Acquire(i) ==
  /\ tpc[i] = "acquire"
  /\ semaphore < maxConcurrency
  /\ semaphore' = semaphore + 1
  /\ tpc' = [tpc EXCEPT ![i] = "lookup"]
  /\ UNCHANGED <<repos, maxConcurrency, hung, spawned, served, results, closed,
                 panicked, wg, cpc, mpc, repoResults>>
  /\ UNCHANGED <<pvars, mvars, netlog, xvars>>

\* The requests of the sequence reqs, each issued for repository r.
RequestsFor(r, reqs) == {<<reqs[j], r>> : j \in 1..Len(reqs)}

\* The requests getFirstCommit has issued so far for the repository of task i.
Sent(i) == {e \in netlog : e[2] = repos[i] /\ e[1] \in {"repository", "commits"}}

\* The server does not answer the request that fails in s before the
\* client's Timeout of 30 s (src/main.go:79): httpClient.Do gives up and
\* makeRequest returns a transport error.
TimesOut(s) ==
  \/ s.repo.kind = "transport"
  \/ s.repo.kind = "ok" /\ s.commits.kind = "transport"

\* Inside client.getFirstCommit(repo.FullName): the next request of the call
\* goes out (getRepository's GET at src/main.go:182, the commit-list GET at
\* 198), the server behaving in one of the ways S.  The commit-list request
\* goes out only after the repository GET was answered well.
LookupSendsFrom(i, S) ==
  /\ tpc[i] = "lookup"
  /\ \E s \in S :
       LET reqs == getFirstCommit(s).reqs
           n == Cardinality(Sent(i))
       IN /\ n < Len(reqs)
          /\ RequestsFor(repos[i], SubSeq(reqs, 1, n)) = Sent(i)
          /\ netlog' = netlog \cup {<<reqs[n + 1], repos[i]>>}
  /\ UNCHANGED <<repos, maxConcurrency, hung, spawned, tpc, served, semaphore, results,
                 closed, panicked, wg, cpc, mpc, repoResults>>
  /\ UNCHANGED <<pvars, mvars, xvars>>

\* client.getFirstCommit(repo.FullName) returns, the server having behaved in
\* one of the ways S: its requests are the ones issued.  The task whose
\* request the server leaves unanswered returns with the timeout's error.
LookupReturnsFrom(i, S) ==
  /\ tpc[i] = "lookup"
  /\ \E s \in S :
       /\ RequestsFor(repos[i], getFirstCommit(s).reqs) = Sent(i)
       /\ i = hung => TimesOut(s)
       /\ served' = [served EXCEPT ![i] = s]
  /\ tpc' = [tpc EXCEPT ![i] = "deposit"]
  /\ UNCHANGED <<repos, maxConcurrency, hung, spawned, semaphore, results, closed,
                 panicked, wg, cpc, mpc, repoResults>>
  /\ UNCHANGED <<pvars, mvars, netlog, xvars>>

\* Inside getFirstCommit, with whatever the server does.
LookupSends(i) == LookupSendsFrom(i, LookupScenarios)

\* client.getFirstCommit(repo.FullName) returns, with whatever the server did.
LookupReturns(i) == LookupReturnsFrom(i, LookupScenarios)

\* results <- RepositoryResult{...}: blocks while the buffer holds len(repos)
\* results; a send on a closed channel panics.
Deposit(i) ==
  /\ tpc[i] = "deposit"
  /\ IF closed
     THEN /\ panicked' = TRUE
          /\ tpc' = [tpc EXCEPT ![i] = "dead"]
          /\ UNCHANGED results
     ELSE /\ Len(results) < ResultsCapacity
          /\ results' = Append(results, RepositoryResult(repos[i], served[i]))
          /\ tpc' = [tpc EXCEPT ![i] = "release"]
          /\ UNCHANGED panicked
  /\ UNCHANGED <<repos, maxConcurrency, hung, spawned, served, semaphore, closed,
                 wg, cpc, mpc, repoResults>>
  /\ UNCHANGED <<pvars, mvars, netlog, xvars>>

\* A variant that leaves its token in the semaphore.
Release_KeepsToken(i) ==
  /\ tpc[i] = "release"
  /\ tpc' = [tpc EXCEPT ![i] = "return"]
  /\ UNCHANGED <<repos, maxConcurrency, hung, spawned, served, semaphore, results,
                 closed, panicked, wg, cpc, mpc, repoResults>>
  /\ UNCHANGED <<pvars, mvars, netlog, xvars>>

\* <-semaphore
Release(i) ==
  /\ tpc[i] = "release"
  /\ semaphore > 0
  /\ semaphore' = semaphore - 1
  /\ tpc' = [tpc EXCEPT ![i] = "return"]
  /\ UNCHANGED <<repos, maxConcurrency, hung, spawned, served, results, closed,
                 panicked, wg, cpc, mpc, repoResults>>
  /\ UNCHANGED <<pvars, mvars, netlog, xvars>>

\* The deferred wg.Done() as the goroutine returns.
Done(i) ==
  /\ tpc[i] = "return"
  /\ wg' = wg - 1
  /\ tpc' = [tpc EXCEPT ![i] = "done"]
  /\ UNCHANGED <<repos, maxConcurrency, hung, spawned, served, semaphore, results,
                 closed, panicked, cpc, mpc, repoResults>>
  /\ UNCHANGED <<pvars, mvars, netlog, xvars>>

\* A variant that closes the channel without waiting for the workers.
Close_WithoutWait ==
  /\ cpc = "wait"
  /\ closed' = TRUE
  /\ cpc' = "done"
  /\ UNCHANGED <<repos, maxConcurrency, hung, spawned, tpc, served, semaphore,
                 results, panicked, wg, mpc, repoResults>>
  /\ UNCHANGED <<pvars, mvars, netlog, xvars>>

\* wg.Wait() returns and the closing goroutine closes the results channel.
Close ==
  /\ cpc = "wait"
  /\ wg = 0
  /\ closed' = TRUE
  /\ cpc' = "done"
  /\ UNCHANGED <<repos, maxConcurrency, hung, spawned, tpc, served, semaphore,
                 results, panicked, wg, mpc, repoResults>>
  /\ UNCHANGED <<pvars, mvars, netlog, xvars>>

\* One iteration of "for result := range results": append the received result.
Collect ==
  /\ mpc = "collect"
  /\ results # <<>>
  /\ repoResults' = Append(repoResults, Head(results))
  /\ results' = Tail(results)
  /\ UNCHANGED <<repos, maxConcurrency, hung, spawned, tpc, served, semaphore,
                 closed, panicked, wg, cpc, mpc>>
  /\ UNCHANGED <<pvars, mvars, netlog, xvars>>

\* The range loop ends on the closed, drained channel: return repoResults.
Return ==
  /\ mpc = "collect"
  /\ results = <<>>
  /\ closed
  /\ mpc' = "returned"
  /\ UNCHANGED <<repos, maxConcurrency, hung, spawned, tpc, served, semaphore,
                 results, closed, panicked, wg, cpc, repoResults>>
  /\ UNCHANGED <<pvars, mvars, netlog, xvars>>

\* The worker goroutine of repos[i] (src/main.go:429-434).
Worker(i) ==
  /\ i \in Tasks
  /\ \/ Acquire(i)
     \/ LookupSends(i)
     \/ LookupReturns(i)
     \/ Deposit(i)
     \/ Release(i)
     \/ Done(i)

Next ==
  \/ Spawn
  \/ StartCloser
  \/ \E i \in Tasks : Acquire(i)
  \/ \E i \in Tasks : LookupSends(i)
  \/ \E i \in Tasks : LookupReturns(i)
  \/ \E i \in Tasks : Deposit(i)
  \/ \E i \in Tasks : Release(i)
  \/ \E i \in Tasks : Done(i)
  \/ Close
  \/ Collect
  \/ Return

Spec == Init /\ [][Next]_vars

\* For the progress properties the server either fails the commit request or
\* answers it with a named author: progress does not depend on the payload.
LiveScenarios ==
  { Lookup(2, OkRepo, Response("transport", <<>>, NoURL)),
    Lookup(2, OkRepo, Response("ok", <<"", "bob">>, 1)) }

LiveWorker(i) ==
  /\ i \in Tasks
  /\ \/ Acquire(i)
     \/ LookupSendsFrom(i, LiveScenarios)
     \/ LookupReturnsFrom(i, LiveScenarios)
     \/ Deposit(i)
     \/ Release(i)
     \/ Done(i)

LiveNext ==
  \/ Spawn
  \/ StartCloser
  \/ \E i \in Tasks : LiveWorker(i)
  \/ Close
  \/ Collect
  \/ Return

\* The Go scheduler runs every goroutine that can take a step, and every
\* creator lookup returns (the HTTP client has a 30 s timeout, src/main.go:79).
Fairness ==
  /\ WF_vars(Spawn)
  /\ WF_vars(StartCloser)
  /\ \A i \in 1..MaxK : WF_vars(LiveWorker(i))
  /\ WF_vars(Close)
  /\ WF_vars(Collect)
  /\ WF_vars(Return)

FairSpec == Init /\ [][LiveNext]_vars /\ Fairness

\* The same function when the network call of exactly one task, hung, hangs:
\* the server leaves its request unanswered.
HangInit ==
  \E k \in 1..MaxK, limit \in 1..MaxL, h \in 1..MaxK :
    /\ h <= k
    /\ InitOrchestrator(SubSeq(Catalogue, 1, k), limit, h)
    /\ NoListCall
    /\ NoMain
    /\ NoOutput
    /\ NoCall

\* The steps of worker i that the scheduler alone decides: every step but the
\* return of the hanging call.
HangWorker(i) ==
  /\ i \in Tasks
  /\ \/ Acquire(i)
     \/ LookupSendsFrom(i, LiveScenarios)
     \/ i # hung /\ LookupReturnsFrom(i, LiveScenarios)
     \/ Deposit(i)
     \/ Release(i)
     \/ Done(i)

\* The Go scheduler runs every goroutine that can take a step, and every
\* creator lookup but the hanging one returns. The hanging call ends when the
\* HTTP client gives it up (src/main.go:79), with a transport error; nothing
\* is assumed about when, so that the call may last for as long as the run.
HangFairness ==
  /\ WF_vars(Spawn)
  /\ WF_vars(StartCloser)
  /\ \A i \in 1..MaxK : WF_vars(HangWorker(i))
  /\ WF_vars(Close)
  /\ WF_vars(Collect)
  /\ WF_vars(Return)

HangSpec == HangInit /\ [][LiveNext]_vars /\ HangFairness

\* ------------------------------------------- getRepositories / getBranches
\* The values of page i when it carries n of them: the j-th value of page i
\* is the pair <<i, j>>.
Items(i, n) == [j \in 1..n |-> <<i, j>>]

\* What the server can answer for one page of a list of n pages: a failure,
\* or n values and a cursor to any page or none.
PageChoices(n) ==
  {<<"ok", l, x>> : l \in 0..MaxPageLen, x \in 0..n}
    \cup {<<k, 0, NoURL>> : k \in {"transport", "status", "malformed"}}

\* The list call is entered: url is the first page, the accumulator is nil
\* (src/main.go:106-107, 149-150).
InitListCall(f, ps) ==
  /\ fn = f
  /\ pages = ps
  /\ url = 1
  /\ all = <<>>
  /\ requests = <<>>
  /\ ppc = "loop"
  /\ ret = [values |-> <<>>, err |-> NoError]

\* processRepositoriesConcurrently is not running, and main holds rs.
IdleOrchestrator(rs) ==
  /\ repos = rs
  /\ maxConcurrency = 1
  /\ hung = 0
  /\ spawned = 0
  /\ tpc = <<>>
  /\ served = <<>>
  /\ semaphore = 0
  /\ results = <<>>
  /\ closed = FALSE
  /\ panicked = FALSE
  /\ wg = 0
  /\ cpc = "unborn"
  /\ mpc = "idle"
  /\ repoResults = <<>>
  /\ netlog = {}

\* processRepositoriesConcurrently is not running.
NoOrchestrator == IdleOrchestrator(<<>>)

PageInit ==
  /\ NoOrchestrator
  /\ NoMain
  /\ NoOutput
  /\ NoCall
  /\ \E f \in {"getRepositories", "getBranches"}, n \in 1..MaxPages :
       \E c \in [1..n -> PageChoices(n)] :
         InitListCall(f, [i \in 1..n |-> Response(c[i][1], Items(i, c[i][2]), c[i][3])])

\* A variant that puts the new page in front of the accumulated values.
Accumulate_Prepend(acc, values) == values \o acc

\* append(allRepos, response.Values...) (src/main.go:125, 168).
Accumulate(acc, values) == acc \o values

\* A variant that returns what was accumulated along with the error.
ErrorReturn_Partial(acc, err) == [values |-> acc, err |-> err]

\* return nil, err (src/main.go:111-113, 121-123, 154-156, 164-166).
ErrorReturn(acc, err) == [values |-> <<>>, err |-> err]

\* A variant that requests the same page again when a request fails.
FetchPage_RetriesOnError ==
  /\ ppc = "loop"
  /\ url # NoURL
  /\ Len(requests) < MaxRequests
  /\ requests' = Append(requests, url)
  /\ LET r == makeRequest(pages[url]) IN
     IF r.err # NoError
     THEN UNCHANGED <<all, url, ret, ppc>>
     ELSE LET u == Unmarshal(r.data) IN
       IF u.err # NoError
       THEN UNCHANGED <<all, url, ret, ppc>>
       ELSE /\ all' = Accumulate(all, u.values)
            /\ url' = u.next
            /\ UNCHANGED <<ret, ppc>>
  /\ UNCHANGED <<fn, pages>>
  /\ UNCHANGED <<ovars, mvars, netlog, xvars>>

\* One iteration of "for url != """: request the page, decode it, append its
\* values and take its next cursor; or return nil and the error.
FetchPage ==
  /\ ppc = "loop"
  /\ url # NoURL
  /\ Len(requests) < MaxRequests
  /\ requests' = Append(requests, url)
  /\ LET r == makeRequest(pages[url]) IN
     IF r.err # NoError
     THEN /\ ret' = ErrorReturn(all, r.err)
          /\ ppc' = "returned"
          /\ UNCHANGED <<all, url>>
     ELSE LET u == Unmarshal(r.data) IN
       IF u.err # NoError
       THEN /\ ret' = ErrorReturn(all, u.err)
            /\ ppc' = "returned"
            /\ UNCHANGED <<all, url>>
       ELSE /\ all' = Accumulate(all, u.values)
            /\ url' = u.next
            /\ UNCHANGED <<ret, ppc>>
  /\ UNCHANGED <<fn, pages>>
  /\ UNCHANGED <<ovars, mvars, netlog, xvars>>

\* The loop ends on the empty url: return the accumulator and no error.
ReturnAll ==
  /\ ppc = "loop"
  /\ url = NoURL
  /\ ret' = [values |-> all, err |-> NoError]
  /\ ppc' = "returned"
  /\ UNCHANGED <<fn, pages, url, all, requests>>
  /\ UNCHANGED <<ovars, mvars, netlog, xvars>>

\* getRepositories (src/main.go:105-130).
getRepositories == fn = "getRepositories" /\ (FetchPage \/ ReturnAll)

\* getBranches (src/main.go:148-173).
getBranches == fn = "getBranches" /\ (FetchPage \/ ReturnAll)

PageNext == getRepositories \/ getBranches

PageSpec == PageInit /\ [][PageNext]_vars

\* The client runs the list call to its end.
PageFairSpec == PageInit /\ [][PageNext]_vars /\ WF_vars(PageNext)

\* ------------------------------------------- main: the all-repositories flow
\* The concurrency main passes to processRepositoriesConcurrently.
MainConcurrency == 10

\* The filter pass over the fetched repositories (--include / --exclude,
\* src/README.md:116-135): with include terms, the repositories whose name
\* matches one of them; otherwise those whose name matches no exclude term.
FilterRepositories(list, include, exclude) ==
  IF include # {}
  THEN SelectSeq(list, LAMBDA r : \E t \in include : matchesRepoName(r, t))
  ELSE SelectSeq(list, LAMBDA r : \A t \in exclude : ~matchesRepoName(r, t))

\* The lists of at most n distinct repositories of the catalogue.
DistinctLists(n) ==
  LET Picks == UNION {[1..k -> 1..Len(Catalogue)] : k \in 0..n}
  IN {[j \in DOMAIN q |-> Catalogue[q[j]]] :
        q \in {q \in Picks : \A a, b \in DOMAIN q : a # b => q[a] # q[b]}}

\* ------------------------------------------------ the filter pass of the spec
\* The repositories are fetched and the filter pass is about to run.
FilterInit ==
  /\ \E list \in DistinctLists(MaxNames) :
       /\ IdleOrchestrator(list)
       /\ allRepos = list
  /\ NoListCall
  /\ NoOutput
  /\ NoCall
  /\ cmd = PlainCommand
  /\ includeTerms \in SUBSET TermPool
  /\ excludeTerms \in SUBSET TermPool
  /\ warned = FALSE
  /\ mode = "full"
  /\ repoOnly = FALSE
  /\ phase = "fetched"
  /\ outIdx = 0

\* The filter pass: the surviving repositories replace the fetched list, and
\* the precedence warning is printed when both filters are given.
FilterPass ==
  /\ phase = "fetched"
  /\ repos' = FilterRepositories(allRepos, includeTerms, excludeTerms)
  /\ warned' = (includeTerms # {} /\ excludeTerms # {})
  /\ phase' = "filtered"
  /\ UNCHANGED <<maxConcurrency, hung, spawned, tpc, served, semaphore, results,
                 closed, panicked, wg, cpc, mpc, repoResults>>
  /\ UNCHANGED <<cmd, allRepos, includeTerms, excludeTerms, mode, repoOnly, outIdx>>
  /\ UNCHANGED <<pvars, netlog, xvars>>

\* The filter pass alone, over every list of the catalogue and every choice
\* of terms.
FilterSpec == FilterInit /\ [][FilterPass]_vars

\* What the clock shows (time.Now).
Now == Date(2024, 12, 1, 9)

\* The sequences over S of length n.
Tuples(S, n) == [1..n -> S]

\* The sequences over S of length at most n.
SeqsUpTo(S, n) == UNION { Tuples(S, k) : k \in 0..n }

\* ------------------------------------------------------- the printed text
\* A text is a sequence of pieces: the characters ",", "\"" and "\n" each
\* stand alone, and any other piece is a run of characters free of the three.
Comma == ","
Quote == "\""
Newline == "\n"

\* strconv of an int below 100 on two digits, as the layout "01" / "02" does.
Pad2(n) == IF n < 10 THEN "0" \o ToString(n) ELSE ToString(n)

\* The year as the layout element 2006 prints it: at least four digits, zero
\* padded, after the sign of a year below zero.
RECURSIVE Pad4(_)
Pad4(n) ==
  IF n < 0 THEN "-" \o Pad4(0 - n)
  ELSE IF n < 10 THEN "000" \o ToString(n)
  ELSE IF n < 100 THEN "00" \o ToString(n)
  ELSE IF n < 1000 THEN "0" \o ToString(n)
  ELSE ToString(n)

\* Time.Format("2006-01-02") (src/main.go:475-476, 513-514).
FormatDay(t) == LET c == Civil(t) IN <<Pad4(c.y), "-", Pad2(c.m), "-", Pad2(c.d)>>

\* The text %d prints for an int.
Itoa(n) == <<ToString(n)>>

\* fmt.Sprintf: the verbs %s and %d of the format are replaced, in order, by
\* the texts of the arguments; the other pieces are copied.
RECURSIVE Sprintf(_, _)
Sprintf(format, args) ==
  IF format = <<>> THEN <<>>
  ELSE IF Head(format) \in {"%s", "%d"}
       THEN Head(args) \o Sprintf(Tail(format), Tail(args))
       ELSE <<Head(format)>> \o Sprintf(Tail(format), args)

\* strings.ReplaceAll(field, "\"", "\"\"").
RECURSIVE DoubleQuotes(_)
DoubleQuotes(field) ==
  IF field = <<>> THEN <<>>
  ELSE (IF Head(field) = Quote THEN <<Quote, Quote>> ELSE <<Head(field)>>)
       \o DoubleQuotes(Tail(field))

\* escapeCSV (src/main.go:522-529).
escapeCSV(field) ==
  IF \E k \in DOMAIN field : field[k] \in {Comma, Quote, Newline}
  THEN <<Quote>> \o DoubleQuotes(field) \o <<Quote>>
  ELSE field

\* The line outputCSVHeader prints (src/main.go:453-455).
CSVHeader ==
  <<"Repository Name", Comma, "Owner", Comma, "Creator", Comma, "Date Created", Comma,
    "Date Last Accessed", Comma, "Main Branch", Comma, "Repo Age (months)", Comma,
    "Last Access (months)", Comma, "Branch Name", Comma, "Branch Date Created", Comma,
    "Branch Last Pushed", Comma, "Branch Last Pushed By", Comma, "Branch Age (months)",
    Newline>>

\* The format of the repository-only row (src/main.go:471).
RepoOnlyFormat ==
  <<"%s", Comma, "%s", Comma, "%s", Comma, "%s", Comma, "%s", Comma, "%s", Comma,
    "%d", Comma, "%d", Comma, Comma, Comma, Comma, Comma, Newline>>

\* The format of the row printed when the branch listing fails
\* (src/main.go:485).
ErrorRowFormat ==
  <<"%s", Comma, "%s", Comma, "%s", Comma, "%s", Comma, "%s", Comma, "%s", Comma,
    "%d", Comma, "%d", Comma, "ERROR: ", "%s", Comma, Comma, Comma, Newline>>

\* The format of a branch row (src/main.go:503).
BranchRowFormat ==
  <<"%s", Comma, "%s", Comma, "%s", Comma, "%s", Comma, "%s", Comma, "%s", Comma,
    "%d", Comma, "%d", Comma, "%s", Comma, "%s", Comma, "%s", Comma, "%s", Comma,
    "%d", Newline>>

\* The format of a line of the stale-branch feed (src/main.go:349).
FeedFormat == <<"%s", ":", "%s", Newline>>

\* ------------------------------------------------ repositories and branches
\* The text of an error (err.Error()).
ErrorText(err) ==
  IF err = "transport error"
  THEN <<"Get ", Quote, "https://api.bitbucket.org/2.0", Quote, ": EOF">>
  ELSE IF err = "API request failed with status"
  THEN <<"API request failed with status: 404">>
  ELSE <<err>>

\* The Repository the server holds under a name of the catalogue.
Repository(name) ==
  [Name |-> name,
   FullName |-> <<"w", "s", "/">> \o name,
   CreatedOn |-> IF name = ArchiveOld THEN Date(2020, 3, 10, 8) ELSE CreatedOn,
   UpdatedOn |-> IF name = ArchiveOld THEN Now - 400 * 24 * Hour
                 ELSE IF name = ApiCore THEN Now - 360 * 24 * Hour
                 ELSE IF name = WebUi THEN Now - 10 * 24 * Hour
                 ELSE Now - 361 * 24 * Hour,
   Owner |-> IF name = ArchiveOld THEN <<"Acme", Comma, " Inc.">>
             ELSE IF name = ApiCore THEN <<"Bob ", Quote, "the builder", Quote>>
             ELSE <<"carol">>,
   Username |-> IF name = ArchiveOld THEN <<"acme">>
                ELSE IF name = ApiCore THEN <<"bob">>
                ELSE <<"carol">>,
   MainBranch |-> IF name = ArchiveOld THEN <<"master">> ELSE <<"main">>]

\* A Branch: its name, the date of its target and the display name of the
\* target's author.
Branch(name, date, author) == [Name |-> name, Date |-> date, Author |-> author]

\* The branches the server holds, in the order it lists them.
BranchCatalogue ==
  << Branch(<<"main">>, Now - 400 * 24 * Hour, <<"alice">>),
     Branch(<<"hotfix", Comma, "1">>, Now - 181 * 24 * Hour, <<"alice">>),
     Branch(<<"develop">>, Now - 200 * 24 * Hour, <<"bob">>),
     Branch(<<"feature/x">>, Now - 180 * 24 * Hour, <<"bob">>),
     Branch(<<"Main">>, Now - 200 * 24 * Hour, <<"Doe", Comma, " Jane">>),
     Branch(<<"master">>, Now - 400 * 24 * Hour, <<"alice">>),
     Branch(<<"feature/y">>, Now - 10 * 24 * Hour, <<"bob">>),
     Branch(<<"orphan">>, ZeroTime, <<>>),
     Branch(<<"release/1">>, Now - 300 * 24 * Hour, <<"alice">>) >>

\* What getBranches may return: a run of at most MaxBranches consecutive
\* branches of the catalogue, or an error and no list.
Listings ==
  { Listing(SubSeq(BranchCatalogue, i, i + n - 1), NoError) :
      n \in 0..MaxBranches, i \in 1..(Len(BranchCatalogue) - MaxBranches + 1) }
    \cup { Listing(<<>>, e) : e \in {"transport error", "API request failed with status"} }

\* ---------------------------------------------------------- output passes
\* A variant that lets develop through.
SkippedBranch_WithoutDevelop(name) == name \in {<<"main">>, <<"master">>}

\* branch.Name == "main" || branch.Name == "master" || branch.Name == "develop"
\* (src/main.go:345).
SkippedBranch(name) == name \in {<<"main">>, <<"master">>, <<"develop">>}

\* The loop of outputOldBranches (src/main.go:343-352): the lines printed for
\* the branches, in order.
RECURSIVE StaleLines(_, _)
StaleLines(repo, branches) ==
  IF branches = <<>> THEN <<>>
  ELSE LET branch == Head(branches) IN
       IF SkippedBranch(branch.Name) THEN StaleLines(repo, Tail(branches))
       ELSE IF isOlderThan(Now, branch.Date, 6)
       THEN <<Sprintf(FeedFormat, <<repo.FullName, branch.Name>>)>>
            \o StaleLines(repo, Tail(branches))
       ELSE StaleLines(repo, Tail(branches))

\* outputOldBranches (src/main.go:336-353) when getBranches returns l: the
\* lines it prints.
outputOldBranches(repo, l) ==
  IF l.err # NoError THEN <<>> ELSE StaleLines(repo, l.branches)

\* A variant that counts the old branches only.
SummaryIteration_OldOnly(st, repo, l) ==
  LET s1 == IF isOlderThan(Now, repo.UpdatedOn, 12)
            THEN [st EXCEPT !.OldRepos = @ + 1]
            ELSE [st EXCEPT !.RecentRepos = @ + 1]
      old == Cardinality({k \in DOMAIN l.branches : isOlderThan(Now, l.branches[k].Date, 6)})
  IN IF l.err # NoError THEN s1
     ELSE [s1 EXCEPT !.TotalBranches = @ + Len(l.branches),
                     !.OldBranches = @ + old]

\* One iteration of the loop of calculateSummaryStats (src/main.go:547-571)
\* when getBranches returns l: the stats after it.
SummaryIteration(st, repo, l) ==
  LET s1 == IF isOlderThan(Now, repo.UpdatedOn, 12)
            THEN [st EXCEPT !.OldRepos = @ + 1]
            ELSE [st EXCEPT !.RecentRepos = @ + 1]
      old == Cardinality({k \in DOMAIN l.branches : isOlderThan(Now, l.branches[k].Date, 6)})
  IN IF l.err # NoError THEN s1
     ELSE [s1 EXCEPT !.TotalBranches = @ + Len(l.branches),
                     !.OldBranches = @ + old,
                     !.RecentBranches = @ + (Len(l.branches) - old)]

\* The eight repository arguments every row format starts with
\* (src/main.go:459-467, 472-479).
RepoColumns(repo, creator) ==
  <<escapeCSV(repo.Name), escapeCSV(repo.Owner), escapeCSV(<<creator>>),
    FormatDay(repo.CreatedOn), FormatDay(repo.UpdatedOn), escapeCSV(repo.MainBranch),
    Itoa(calculateMonthsDifference(repo.CreatedOn, Now)),
    Itoa(calculateMonthsDifference(repo.UpdatedOn, Now))>>

\* The five branch arguments of a branch row (src/main.go:498-517).
BranchColumns(branch) ==
  <<escapeCSV(branch.Name), FormatDay(branch.Date), FormatDay(branch.Date),
    escapeCSV(branch.Author), Itoa(calculateMonthsDifference(branch.Date, Now))>>

\* A variant that prints nothing when the branch listing fails.
outputRepositoryCSV_SilentOnError(repo, creator, only, l) ==
  IF only THEN <<Sprintf(RepoOnlyFormat, RepoColumns(repo, creator))>>
  ELSE IF l.err # NoError THEN <<>>
  ELSE [k \in 1..Len(l.branches) |->
          Sprintf(BranchRowFormat, RepoColumns(repo, creator) \o BranchColumns(l.branches[k]))]

\* outputRepositoryCSV (src/main.go:458-519) when getBranches, if called,
\* returns l: the rows it prints.
outputRepositoryCSV(repo, creator, only, l) ==
  IF only THEN <<Sprintf(RepoOnlyFormat, RepoColumns(repo, creator))>>
  ELSE IF l.err # NoError
  THEN <<Sprintf(ErrorRowFormat,
                 RepoColumns(repo, creator) \o <<escapeCSV(ErrorText(l.err))>>)>>
  ELSE [k \in 1..Len(l.branches) |->
          Sprintf(BranchRowFormat, RepoColumns(repo, creator) \o BranchColumns(l.branches[k]))]

\* An output pass is about to walk the repositories: the stale-branch feed
\* ("output") walks the fetched list, the summary the list handed to
\* calculateSummaryStats, the CSV loop the results of the creator lookups.
\* stdout holds the lines of the latest step that printed.
OutputInit ==
  /\ \E k \in 0..MaxK, m \in {"output", "summary", "csv"}, only \in BOOLEAN,
        c \in {"alice", UnableToDetermine} :
       /\ m # "csv" => (~only /\ c = "alice")
       /\ repos = SubSeq(Catalogue, 1, k)
       /\ mode = m
       /\ repoOnly = only
       /\ repoResults = IF m = "csv"
                        THEN [j \in 1..k |->
                                [Repository |-> Catalogue[j], Creator |-> c, Error |-> NoError]]
                        ELSE <<>>
       /\ phase = IF m = "output" THEN "loop" ELSE "start"
  /\ maxConcurrency = 1
  /\ hung = 0
  /\ spawned = 0
  /\ tpc = <<>>
  /\ served = <<>>
  /\ semaphore = 0
  /\ results = <<>>
  /\ closed = FALSE
  /\ panicked = FALSE
  /\ wg = 0
  /\ cpc = "unborn"
  /\ mpc = "idle"
  /\ NoListCall
  /\ netlog = {}
  /\ cmd = PlainCommand
  /\ allRepos = <<>>
  /\ includeTerms = {}
  /\ excludeTerms = {}
  /\ warned = FALSE
  /\ outIdx = 0
  /\ NoOutput
  /\ NoCall

\* One call of outputOldBranches in main's output mode (src/main.go:757,
\* 764-766):
\* outputOldBranches(repo, client).
FeedStep ==
  /\ mode = "output"
  /\ phase = "loop"
  /\ outIdx < Len(repos)
  /\ \E l \in Listings :
       /\ listing' = l
       /\ stdout' = outputOldBranches(Repository(repos[outIdx + 1]), l)
  /\ netlog' = netlog \cup {<<"branches", repos[outIdx + 1]>>}
  /\ outIdx' = outIdx + 1
  /\ UNCHANGED <<ovars, pvars, cmd, allRepos, includeTerms, excludeTerms, warned, mode,
                 repoOnly, phase, stats, fcall, fret>>

\* stats := &SummaryStats{TotalRepos: len(repos)} (src/main.go:543-545).
SummaryEnter ==
  /\ mode = "summary"
  /\ phase = "start"
  /\ stats' = [NoStats EXCEPT !.TotalRepos = Len(repos)]
  /\ phase' = "loop"
  /\ UNCHANGED <<ovars, pvars, netlog, cmd, allRepos, includeTerms, excludeTerms, warned,
                 mode, repoOnly, outIdx, listing, stdout, fcall, fret>>

\* One iteration of the loop of calculateSummaryStats (src/main.go:547-571).
SummaryStep ==
  /\ mode = "summary"
  /\ phase = "loop"
  /\ outIdx < Len(repos)
  /\ \E l \in Listings :
       /\ listing' = l
       /\ stats' = SummaryIteration(stats, Repository(repos[outIdx + 1]), l)
  /\ netlog' = netlog \cup {<<"branches", repos[outIdx + 1]>>}
  /\ outIdx' = outIdx + 1
  /\ UNCHANGED <<ovars, pvars, cmd, allRepos, includeTerms, excludeTerms, warned, mode,
                 repoOnly, phase, stdout, fcall, fret>>

\* return stats, nil (src/main.go:573).
SummaryReturn ==
  /\ mode = "summary"
  /\ phase = "loop"
  /\ outIdx = Len(repos)
  /\ fret' = [done |-> TRUE, value |-> stats, err |-> NoError]
  /\ phase' = "returned"
  /\ UNCHANGED <<ovars, pvars, netlog, cmd, allRepos, includeTerms, excludeTerms, warned,
                 mode, repoOnly, outIdx, listing, stdout, stats, fcall>>

\* outputCSVHeader() (src/main.go:817, 856).
CSVHeaderStep ==
  /\ mode = "csv"
  /\ phase = "start"
  /\ stdout' = <<CSVHeader>>
  /\ phase' = "loop"
  /\ UNCHANGED <<ovars, pvars, netlog, cmd, allRepos, includeTerms, excludeTerms, warned,
                 mode, repoOnly, outIdx, listing, stats, fcall, fret>>

\* One call of outputRepositoryCSV (src/main.go:818, 857-859):
\* outputRepositoryCSV(result.Repository, result.Creator, client, *repoOnly);
\* getBranches is called unless --repo-only is set.
CSVStep ==
  /\ mode = "csv"
  /\ phase = "loop"
  /\ outIdx < Len(repoResults)
  /\ LET result == repoResults[outIdx + 1] IN
       /\ \E l \in (IF repoOnly THEN {Listing(<<>>, NoError)} ELSE Listings) :
            /\ listing' = l
            /\ stdout' = outputRepositoryCSV(Repository(result.Repository), result.Creator,
                                             repoOnly, l)
       /\ netlog' = IF repoOnly THEN netlog
                    ELSE netlog \cup {<<"branches", result.Repository>>}
  /\ outIdx' = outIdx + 1
  /\ UNCHANGED <<ovars, pvars, cmd, allRepos, includeTerms, excludeTerms, warned, mode,
                 repoOnly, phase, stats, fcall, fret>>

\* The loop of the feed or of the CSV output is over and main returns.
OutputExit ==
  /\ mode \in {"output", "csv"}
  /\ phase = "loop"
  /\ outIdx = (IF mode = "csv" THEN Len(repoResults) ELSE Len(repos))
  /\ phase' = "returned"
  /\ UNCHANGED <<ovars, pvars, netlog, cmd, allRepos, includeTerms, excludeTerms, warned,
                 mode, repoOnly, outIdx, xvars>>

OutputNext ==
  \/ FeedStep
  \/ SummaryEnter
  \/ SummaryStep
  \/ SummaryReturn
  \/ CSVHeaderStep
  \/ CSVStep
  \/ OutputExit

OutputSpec == OutputInit /\ [][OutputNext]_vars

\* ------------------------------------------------------ the texts of main
\* The texts printUsage prints, one per fmt.Println (src/main.go:291-329).
UsageText ==
  << <<"Bitbucket Hunter - Repository and Branch Analysis Tool", Newline>>,
     <<Newline, "Usage:", Newline>>,
     <<"  bhunter [options]", Newline>>,
     <<Newline, "Options:", Newline>>,
     <<"  -u", Comma, " --username     Bitbucket username", Newline>>,
     <<"  -p", Comma, " --password     Bitbucket app password", Newline>>,
     <<"  -w", Comma, " --workspace    Bitbucket workspace (optional", Comma,
       " defaults to username)", Newline>>,
     <<"  -r", Comma, " --repo         Repository name (optional", Comma,
       " analyze only this repo)", Newline>>,
     <<"  --repo-only        Show only repository information (no branch details)",
       Newline>>,
     <<"  -o", Comma,
       " --output       Output old branch names (>6 months) for piping to bkiller",
       Newline>>,
     <<"  --csv              Output repository information in CSV format", Newline>>,
     <<"  --summary          Show summary statistics (repos", Comma, " branches",
       Comma, " old branches)", Newline>>,
     <<"  -c", Comma, " --config       Create sample config file", Newline>>,
     <<"  -h", Comma, " --help         Show this help message", Newline>>,
     <<Newline, "Examples:", Newline>>,
     <<"  bhunter                                    # Analyze all repositories with branches",
       Newline>>,
     <<"  bhunter --repo-only                        # Show only repository information",
       Newline>>,
     <<"  bhunter --summary                          # Show summary statistics only",
       Newline>>,
     <<"  bhunter -r BidvestDirect                   # Analyze only BidvestDirect repo",
       Newline>>,
     <<"  bhunter -r BidvestDirect --repo-only       # Show only BidvestDirect repo info",
       Newline>>,
     <<"  bhunter --output | bkiller                 # Find old branches and pipe to bkiller",
       Newline>>,
     <<"  bhunter -r MyRepo -o | bkiller             # Find old branches in specific repo",
       Newline>>,
     <<Newline, "Configuration File:", Newline>>,
     <<"  The program will automatically look for config files in this order:", Newline>>,
     <<"  1. ./bhunter.local.yaml or ./bhunter.local.yml (local overrides)", Newline>>,
     <<"  2. ./bhunter.yaml or ./bhunter.yml (standard config)", Newline>>,
     <<"  3. ./.bhunter.local.yaml or ./.bhunter.local.yml (hidden local)", Newline>>,
     <<"  4. ./.bhunter.yaml or ./.bhunter.yml (hidden config)", Newline>>,
     <<"  5. ~/bhunter.local.yaml or ~/bhunter.local.yml (user local)", Newline>>,
     <<"  6. ~/bhunter.yaml or ~/bhunter.yml (user config)", Newline>>,
     <<"  7. ~/.bhunter.local.yaml or ~/.bhunter.local.yml (hidden user local)",
       Newline>>,
     <<"  8. ~/.bhunter.yaml or ~/.bhunter.yml (hidden user config)", Newline>>,
     <<Newline, "Example config file (bhunter.yaml):", Newline>>,
     <<"  username: your_username", Newline>>,
     <<"  app_password: your_app_password", Newline>>,
     <<"  workspace: your_workspace", Newline>>,
     <<Newline,
       "Get app password at: https://bitbucket.org/account/settings/app-passwords/",
       Newline>> >>

\* The texts main prints when neither the flags nor a config file give the
\* credentials (src/main.go:719-724).
CredentialsText ==
  << <<"Error: Username and app password are required", Newline>>,
     <<Newline, "Options:", Newline>>,
     <<"1. Use command line: bhunter -u username -p app_password", Newline>>,
     <<"2. Create config file: bhunter -c", Newline>>,
     <<"3. Use environment variables: BITBUCKET_USERNAME", Comma,
       " BITBUCKET_APP_PASSWORD", Comma, " BITBUCKET_WORKSPACE", Newline>>,
     <<Newline, "For help: bhunter -h", Newline>> >>


\* A colour function of main, color.New(...).SprintFunc() (src/main.go:770-774):
\* the text alone when standard output is no terminal, and otherwise the text
\* between the escape sequence that sets the attributes and the one that
\* resets them.  The sequences are those of the colour library, each a piece.
Paint(attributes, text) ==
  IF cmd.terminal
  THEN <<"SGR " \o attributes>> \o text \o <<"SGR reset " \o attributes>>
  ELSE text

\* color.New(color.FgYellow).SprintFunc() (src/main.go:770).
yellow(text) == Paint("FgYellow", text)

\* color.New(color.FgRed).SprintFunc() (src/main.go:771).
red(text) == Paint("FgRed", text)

\* color.New(color.FgGreen, color.Bold).SprintFunc() (src/main.go:773).
green(text) == Paint("FgGreen Bold", text)

\* color.New(color.FgCyan, color.Bold).SprintFunc() (src/main.go:774).
cyan(text) == Paint("FgCyan Bold", text)

\* formatDate (src/main.go:283-285), the layout "2006-01-02 15:04:05": the
\* instants are whole hours, so the minutes and the seconds are 00.
formatDate(t) == FormatDay(t) \o <<" ", Pad2(Civil(t).h), ":00:00">>

\* The lines displayRepositoryInfo prints for the repository
\* (src/main.go:356-367).
RepositoryLines(repo, creator) ==
  LET lastAccessed == IF isOlderThan(Now, repo.UpdatedOn, 12)
                      THEN yellow(formatDate(repo.UpdatedOn))
                      ELSE formatDate(repo.UpdatedOn)
  IN << Sprintf(<<Newline, "%s", Newline>>, <<green(<<"Repository: ">> \o repo.Name)>>),
        Sprintf(<<"  Name: ", "%s", Newline>>, <<repo.Name>>),
        Sprintf(<<"  Owner: ", "%s", " (", "%s", ")", Newline>>,
                <<repo.Owner, repo.Username>>),
        Sprintf(<<"  Creator: ", "%s", Newline>>, <<<<creator>>>>),
        Sprintf(<<"  Date Created: ", "%s", Newline>>, <<formatDate(repo.CreatedOn)>>),
        Sprintf(<<"  Date Last Accessed: ", "%s", Newline>>, <<lastAccessed>>),
        Sprintf(<<"  Main Branch: ", "%s", Newline>>, <<repo.MainBranch>>) >>

\* The loop of displayRepositoryInfo (src/main.go:381-393): the lines printed
\* for the branches, in order.
RECURSIVE BranchLines(_)
BranchLines(branches) ==
  IF branches = <<>> THEN <<>>
  ELSE LET branch == Head(branches)
           lastPush == IF isOlderThan(Now, branch.Date, 6)
                       THEN red(formatDate(branch.Date))
                       ELSE formatDate(branch.Date)
       IN << Sprintf(<<"    ", "%s", Newline>>, <<cyan(<<"Branch: ">> \o branch.Name)>>),
             Sprintf(<<"      Name: ", "%s", Newline>>, <<branch.Name>>),
             Sprintf(<<"      Date Created: ", "%s", Newline>>, <<formatDate(branch.Date)>>),
             Sprintf(<<"      Date Last Pushed: ", "%s", Newline>>, <<lastPush>>),
             Sprintf(<<"      Last Pushed By: ", "%s", Newline>>, <<branch.Author>>),
             Sprintf(<<"      Created By: ", "%s", Newline>>, <<branch.Author>>) >>
          \o BranchLines(Tail(branches))

\* displayRepositoryInfo (src/main.go:355-394) when getBranches, if called,
\* returns l: the lines it prints.
displayRepositoryInfo(repo, creator, only, l) ==
  RepositoryLines(repo, creator)
    \o (IF only THEN <<>>
        ELSE << <<Newline, "  Branches:", Newline>> >>
             \o (IF l.err # NoError
                 THEN <<Sprintf(<<"    Error fetching branches: ", "%s", Newline>>,
                                <<ErrorText(l.err)>>)>>
                 ELSE BranchLines(l.branches)))

\* The text %.1f prints for the quotient num / den of two counts: the
\* nearest tenth, the even one on a tie.  The float64 quotient is on no tie
\* for counts below 16.
Fixed1(num, den) ==
  LET q == (10 * num) \div den
      r == (10 * num) % den
      tenths == IF 2 * r > den \/ (2 * r = den /\ q % 2 = 1) THEN q + 1 ELSE q
  IN <<ToString(tenths \div 10), ".", ToString(tenths % 10)>>

\* displaySummaryStats (src/main.go:577-627): the lines it prints.
displaySummaryStats(st) ==
  LET oldReposDisplay == IF st.OldRepos > 0 THEN yellow(Itoa(st.OldRepos))
                         ELSE Itoa(st.OldRepos)
      oldBranchesDisplay == IF st.OldBranches > 0 THEN red(Itoa(st.OldBranches))
                            ELSE Itoa(st.OldBranches)
  IN << Sprintf(<<Newline, "%s", Newline>>,
                <<green(<<"=== BITBUCKET WORKSPACE SUMMARY ===">>)>>),
        Sprintf(<<Newline, "%s", Newline>>, <<cyan(<<"Repository Statistics:">>)>>),
        Sprintf(<<"  Total Repositories: ", "%d", Newline>>, <<Itoa(st.TotalRepos)>>),
        Sprintf(<<"  Recent Repositories (accessed within 12 months): ", "%s", Newline>>,
                <<Itoa(st.RecentRepos)>>),
        Sprintf(<<"  Old Repositories (no access for >12 months): ", "%s", Newline>>,
                <<oldReposDisplay>>) >>
     \o (IF st.TotalRepos > 0
         THEN << <<"  Old Repository Percentage: ">>
                 \o Fixed1(100 * st.OldRepos, st.TotalRepos) \o <<"%", Newline>> >>
         ELSE <<>>)
     \o << Sprintf(<<Newline, "%s", Newline>>, <<cyan(<<"Branch Statistics:">>)>>),
           Sprintf(<<"  Total Branches: ", "%d", Newline>>, <<Itoa(st.TotalBranches)>>),
           Sprintf(<<"  Recent Branches (updated within 6 months): ", "%s", Newline>>,
                   <<Itoa(st.RecentBranches)>>),
           Sprintf(<<"  Old Branches (no updates for >6 months): ", "%s", Newline>>,
                   <<oldBranchesDisplay>>) >>
     \o (IF st.TotalBranches > 0
         THEN << <<"  Old Branch Percentage: ">>
                 \o Fixed1(100 * st.OldBranches, st.TotalBranches) \o <<"%", Newline>>,
                 <<"  Average Branches per Repository: ">>
                 \o Fixed1(st.TotalBranches, st.TotalRepos) \o <<Newline>> >>
         ELSE <<>>)
     \o << Sprintf(<<Newline, "%s", Newline>>, <<cyan(<<"Cleanup Recommendations:">>)>>) >>
     \o (IF st.OldBranches > 0
         THEN << Sprintf(<<"  ", "U+2022", " Consider cleaning up ", "%s", " old branches",
                           Newline>>, <<red(Itoa(st.OldBranches))>>),
                 <<"  ", "U+2022", " Use: bhunter --output | bkiller --dry-run", Newline>> >>
         ELSE <<>>)
     \o (IF st.OldRepos > 0
         THEN << Sprintf(<<"  ", "U+2022", " Review ", "%s",
                           " repositories with no recent activity", Newline>>,
                         <<yellow(Itoa(st.OldRepos))>>) >>
         ELSE <<>>)
     \o (IF st.OldBranches = 0 /\ st.OldRepos = 0
         THEN << Sprintf(<<"  ", "U+2022", " ", "%s",
                           " No cleanup needed - workspace is well maintained!", Newline>>,
                         <<green(<<"U+2713">>)>>) >>
         ELSE <<>>)
     \o << <<Newline>> >>

\* ------------------------------------------------------------------- main
\* The workspace of the client: config.Workspace, or the username when that
\* is empty (src/main.go:70-73).  Whichever source gives the credentials
\* names the workspace ws.
Workspace == <<"w", "s">>

\* The errors getRepositories and getRepository return: makeRequest's, or
\* json.Unmarshal's (src/main.go:105-146).
FetchErrors == {"transport error", "API request failed with status", "json: cannot unmarshal"}

\* The command lines and environments of the runs.  mode is the branch main
\* takes: "output" with -o or --output, else "summary" with --summary, else
\* "csv" with --csv, else "full" (src/main.go:690, 750, 807-821, 844-865);
\* every progress line is guarded by !isOutputMode && !*csv && !*summary,
\* which is mode = "full".  What a run never reads is left as in
\* PlainCommand: the credentials of the file and of the environment when
\* -u and -p are given, the environment when the file is complete.
Commands ==
  {[PlainCommand EXCEPT !.help = TRUE]}
    \cup {[PlainCommand EXCEPT !.createConfig = TRUE, !.writeError = e] :
            e \in {NoError, "open bhunter.yaml: permission denied"}}
    \cup {c \in {[PlainCommand EXCEPT !.flags = f, !.file = g, !.env = e,
                                      !.repoName = r, !.terminal = t] :
                   f \in BOOLEAN, g \in {"none", "partial", "complete"}, e \in BOOLEAN,
                   r \in {NoName, ApiCore, ArchiveOld}, t \in BOOLEAN} :
            /\ c.flags => (c.file = "none" /\ ~c.env)
            /\ c.file = "complete" => ~c.env}

\* main is called (src/main.go:643).  includeTerms and excludeTerms are the
\* values of the --include and --exclude options of src/README.md:116-135 on
\* the command line.  --repo-only is left out where main never reads it (the
\* output and summary modes), and so is the terminal in the modes that call
\* no colour function; both are tried in the runs that take their
\* credentials from -u and -p.
MainInit ==
  /\ NoOrchestrator
  /\ NoListCall
  /\ NoOutput
  /\ NoCall
  /\ allRepos = <<>>
  /\ includeTerms \in {{}, {TermApi}}
  /\ excludeTerms \in {{}, {TermArchive}}
  /\ warned = FALSE
  /\ mode \in {"output", "summary", "csv", "full"}
  /\ repoOnly \in BOOLEAN
  /\ cmd \in Commands
  /\ (cmd.help \/ cmd.createConfig) => (mode = "full" /\ ~repoOnly)
  /\ (mode \in {"output", "summary"} \/ ~cmd.flags) => ~repoOnly
  /\ (mode \in {"output", "csv"} \/ ~cmd.flags) => ~cmd.terminal
  /\ (includeTerms # {} \/ excludeTerms # {}) => (cmd = PlainCommand /\ ~repoOnly)
  /\ phase = "parse"
  /\ outIdx = 0

\* flag.Parse() (src/main.go:664) over the flags main defines
\* (src/main.go:645-662): --include and --exclude are not among them, so a
\* command line that holds one ends the program with the usage error, status
\* 2, written to the standard error stream.
ParseFlags ==
  /\ phase = "parse"
  /\ phase' = IF includeTerms # {} \/ excludeTerms # {} THEN "usage" ELSE "parsed"
  /\ UNCHANGED <<cmd, allRepos, includeTerms, excludeTerms, warned, mode, repoOnly, outIdx>>
  /\ UNCHANGED <<ovars, pvars, netlog, xvars>>

\* if *help || *helpAlt { printUsage(); return } (src/main.go:666-669).
Help ==
  /\ phase = "parsed"
  /\ cmd.help
  /\ stdout' = UsageText
  /\ phase' = "returned"
  /\ UNCHANGED <<cmd, allRepos, includeTerms, excludeTerms, warned, mode, repoOnly, outIdx>>
  /\ UNCHANGED <<ovars, pvars, netlog, listing, stats, fcall, fret>>

\* if *createConfig || *createConfigAlt { createSampleConfigFile(); return }
\* (src/main.go:671-674, 268-280): the message, or the error of os.WriteFile.
CreateConfig ==
  /\ phase = "parsed"
  /\ ~cmd.help
  /\ cmd.createConfig
  /\ stdout' = IF cmd.writeError # NoError
               THEN <<Sprintf(<<"Error creating sample config file: ", "%s", Newline>>,
                              <<ErrorText(cmd.writeError)>>)>>
               ELSE << <<"Sample config file 'bhunter.yaml' created. Please edit it with your credentials.",
                         Newline>> >>
  /\ phase' = "returned"
  /\ UNCHANGED <<cmd, allRepos, includeTerms, excludeTerms, warned, mode, repoOnly, outIdx>>
  /\ UNCHANGED <<ovars, pvars, netlog, listing, stats, fcall, fret>>

\* The config file is tried when -u or -p is missing (src/main.go:692-701):
\* loadConfigFromFile succeeds when a file is found and parses, whatever
\* fields it holds.
LoadConfig ==
  /\ phase = "parsed"
  /\ ~cmd.help
  /\ ~cmd.createConfig
  /\ stdout' = IF ~cmd.flags /\ cmd.file # "none" /\ mode = "full"
               THEN << <<"Loaded configuration from file", Newline>> >>
               ELSE stdout
  /\ phase' = "loaded"
  /\ UNCHANGED <<cmd, allRepos, includeTerms, excludeTerms, warned, mode, repoOnly, outIdx>>
  /\ UNCHANGED <<ovars, pvars, netlog, listing, stats, fcall, fret>>

\* "Validate required fields" (src/main.go:716-742): when the flags and the
\* file leave the username or the app password empty, the error text is
\* printed unless -o is given, and the environment is tried; os.Exit(1) when
\* it has no credentials either.
Validate ==
  /\ phase = "loaded"
  /\ LET complete == cmd.flags \/ cmd.file = "complete"
         block == IF mode # "output" THEN CredentialsText ELSE <<>>
         using == IF mode = "full"
                  THEN << <<Newline, "Using environment variables...", Newline>> >>
                  ELSE <<>>
         printed == IF complete THEN <<>>
                    ELSE IF cmd.env THEN block \o using
                    ELSE block
     IN /\ stdout' = IF printed = <<>> THEN stdout ELSE printed
        /\ phase' = IF complete \/ cmd.env THEN "connect" ELSE "failed"
  /\ UNCHANGED <<cmd, allRepos, includeTerms, excludeTerms, warned, mode, repoOnly, outIdx>>
  /\ UNCHANGED <<ovars, pvars, netlog, listing, stats, fcall, fret>>

\* outputMode (src/main.go:776-781).
OutputModeName ==
  IF repoOnly THEN <<"repository information only">>
  ELSE IF mode = "summary" THEN <<"summary statistics">>
  ELSE <<"full analysis">>

\* client := NewBitbucketClient(...) and the progress lines printed before
\* the first request (src/main.go:743-747, 784-786, 825-827).
Connect ==
  /\ phase = "connect"
  /\ stdout' = IF mode # "full" THEN stdout
               ELSE <<Sprintf(<<"Connecting to Bitbucket workspace: ", "%s", Newline>>,
                              <<Workspace>>),
                      IF cmd.repoName # NoName
                      THEN Sprintf(<<"Fetching repository: ", "%s", " (", "%s", ")", Newline>>,
                                   <<cmd.repoName, OutputModeName>>)
                      ELSE Sprintf(<<"Fetching repositories (", "%s", ")...", Newline>>,
                                   <<OutputModeName>>)>>
  /\ phase' = IF cmd.repoName # NoName THEN "single" ELSE "fetch"
  /\ UNCHANGED <<cmd, allRepos, includeTerms, excludeTerms, warned, mode, repoOnly, outIdx>>
  /\ UNCHANGED <<ovars, pvars, netlog, listing, stats, fcall, fret>>

\* repos, err := client.getRepositories(); os.Exit(1) on an error
\* (src/main.go:760-763, 828-834); the full mode prints the error, or the
\* number of repositories and the line that announces the lookups
\* (src/main.go:836-840).  The output mode goes on to its loop
\* (src/main.go:764-766).  allRepos keeps the list as it was fetched.
MainFetch ==
  /\ phase = "fetch"
  /\ \/ /\ \E k \in 0..MaxK :
             /\ allRepos' = SubSeq(Catalogue, 1, k)
             /\ repos' = SubSeq(Catalogue, 1, k)
             /\ stdout' = IF mode = "full"
                          THEN <<Sprintf(<<Newline, "Found ", "%d", " repositories:", Newline>>,
                                         <<Itoa(k)>>),
                                 <<"Processing creator information concurrently...", Newline>> >>
                          ELSE stdout
        /\ phase' = IF mode = "output" THEN "loop" ELSE "fetched"
     \/ /\ \E e \in FetchErrors :
             stdout' = IF mode = "full"
                       THEN <<Sprintf(<<"Error fetching repositories: ", "%s", Newline>>,
                                      <<ErrorText(e)>>)>>
                       ELSE stdout
        /\ phase' = "failed"
        /\ UNCHANGED <<allRepos, repos>>
  /\ UNCHANGED <<maxConcurrency, hung, spawned, tpc, served, semaphore, results,
                 closed, panicked, wg, cpc, mpc, repoResults>>
  /\ UNCHANGED <<cmd, includeTerms, excludeTerms, warned, mode, repoOnly, outIdx>>
  /\ UNCHANGED <<pvars, netlog, listing, stats, fcall, fret>>

\* repo, err := client.getRepository(*repoName) (src/main.go:753-756,
\* 787-799): os.Exit(1) on an error, after the error and the tip in the full
\* mode.  The output mode goes on to outputOldBranches (src/main.go:757), the
\* other modes to the creator lookup.
SingleFetch ==
  /\ phase = "single"
  /\ netlog' = netlog \cup {<<"repository", cmd.repoName>>}
  /\ \/ /\ repos' = <<cmd.repoName>>
        /\ stdout' = IF mode = "full"
                     THEN <<Sprintf(<<Newline, "Found repository: ", "%s", Newline>>,
                                    <<Repository(cmd.repoName).Name>>)>>
                     ELSE stdout
        /\ phase' = IF mode = "output" THEN "loop" ELSE "lookup"
     \/ /\ \E e \in FetchErrors :
             stdout' = IF mode = "full"
                       THEN <<Sprintf(<<"Error fetching repository '", "%s", "': ", "%s", Newline>>,
                                      <<cmd.repoName, ErrorText(e)>>),
                              <<Newline,
                                "Tip: Repository name is case-sensitive. Try listing all repos first:",
                                Newline>>,
                              <<"     bhunter --repo-only", Newline>> >>
                       ELSE stdout
        /\ phase' = "failed"
        /\ UNCHANGED repos
  /\ UNCHANGED <<maxConcurrency, hung, spawned, tpc, served, semaphore, results,
                 closed, panicked, wg, cpc, mpc, repoResults>>
  /\ UNCHANGED <<cmd, allRepos, includeTerms, excludeTerms, warned, mode, repoOnly, outIdx>>
  /\ UNCHANGED <<pvars, listing, stats, fcall, fret>>

\* Inside client.getFirstCommit(repo.FullName) of the single-repository flow
\* (src/main.go:802): the next request of the call goes out; outIdx counts
\* the requests issued.
SingleLookupSends ==
  /\ phase = "lookup"
  /\ \E s \in LookupScenarios :
       LET reqs == getFirstCommit(s).reqs
       IN /\ outIdx < Len(reqs)
          /\ netlog' = netlog \cup {<<reqs[outIdx + 1], repos[1]>>}
  /\ outIdx' = outIdx + 1
  /\ UNCHANGED <<cmd, allRepos, includeTerms, excludeTerms, warned, mode, repoOnly, phase>>
  /\ UNCHANGED <<ovars, pvars, xvars>>

\* client.getFirstCommit(repo.FullName) returns and creator is set
\* (src/main.go:800-805): the one result is kept where the all-repositories
\* flow keeps its results.
SingleLookupReturns ==
  /\ phase = "lookup"
  /\ \E s \in LookupScenarios :
       /\ Len(getFirstCommit(s).reqs) = outIdx
       /\ repoResults' = <<RepositoryResult(repos[1], s)>>
  /\ outIdx' = 0
  /\ phase' = IF mode = "full" THEN "loop" ELSE "start"
  /\ UNCHANGED <<repos, maxConcurrency, hung, spawned, tpc, served, semaphore, results,
                 closed, panicked, wg, cpc, mpc>>
  /\ UNCHANGED <<cmd, allRepos, includeTerms, excludeTerms, warned, mode, repoOnly>>
  /\ UNCHANGED <<pvars, netlog, xvars>>

\* processRepositoriesConcurrently(repos, client, 10) (src/main.go:841): the
\* call is entered, with the list as it was fetched.
EnterOrchestrator ==
  /\ phase = "fetched"
  /\ mpc = "idle"
  /\ maxConcurrency' = MainConcurrency
  /\ tpc' = [i \in 1..Len(repos) |-> "unborn"]
  /\ served' = [i \in 1..Len(repos) |-> NotServed]
  /\ mpc' = "spawn"
  /\ phase' = "enriching"
  /\ UNCHANGED <<repos, hung, spawned, semaphore, results, closed, panicked, wg,
                 cpc, repoResults>>
  /\ UNCHANGED <<cmd, allRepos, includeTerms, excludeTerms, warned, mode, repoOnly, outIdx>>
  /\ UNCHANGED <<pvars, netlog, xvars>>

\* repoResults := processRepositoriesConcurrently(...) (src/main.go:841): the
\* call has returned and main goes on to the summary (src/main.go:844), to
\* the CSV output (src/main.go:855) or to the display loop (src/main.go:862).
LeaveOrchestrator ==
  /\ phase = "enriching"
  /\ mpc = "returned"
  /\ phase' = IF mode = "full" THEN "loop" ELSE "start"
  /\ UNCHANGED <<cmd, allRepos, includeTerms, excludeTerms, warned, mode, repoOnly, outIdx>>
  /\ UNCHANGED <<ovars, pvars, netlog, xvars>>

\* One call of displayRepositoryInfo (src/main.go:820, 862-864); getBranches
\* is called unless --repo-only is set.
DisplayStep ==
  /\ mode = "full"
  /\ phase = "loop"
  /\ outIdx < Len(repoResults)
  /\ LET result == repoResults[outIdx + 1] IN
       /\ \E l \in (IF repoOnly THEN {Listing(<<>>, NoError)} ELSE Listings) :
            /\ listing' = l
            /\ stdout' = displayRepositoryInfo(Repository(result.Repository),
                                               result.Creator, repoOnly, l)
       /\ netlog' = IF repoOnly THEN netlog
                    ELSE netlog \cup {<<"branches", result.Repository>>}
  /\ outIdx' = outIdx + 1
  /\ UNCHANGED <<ovars, pvars, cmd, allRepos, includeTerms, excludeTerms, warned, mode,
                 repoOnly, phase, stats, fcall, fret>>

\* The display loop is over and main returns (src/main.go:822, 865-866).
DisplayExit ==
  /\ mode = "full"
  /\ phase = "loop"
  /\ outIdx = Len(repoResults)
  /\ phase' = "returned"
  /\ UNCHANGED <<ovars, pvars, netlog, cmd, allRepos, includeTerms, excludeTerms, warned,
                 mode, repoOnly, outIdx, xvars>>

\* displaySummaryStats(stats, yellow, red, green, cyan), once
\* calculateSummaryStats has returned (src/main.go:810-815, 845-851); the
\* error it returns is always nil (src/main.go:573).
DisplaySummary ==
  /\ mode = "summary"
  /\ phase = "returned"
  /\ stdout' = displaySummaryStats(fret.value)
  /\ phase' = "done"
  /\ UNCHANGED <<ovars, pvars, netlog, cmd, allRepos, includeTerms, excludeTerms, warned,
                 mode, repoOnly, outIdx, listing, stats, fcall, fret>>

\* main (src/main.go:643-866): the flags are parsed, the credentials found,
\* and the repository or the repositories fetched; the output mode prints its
\* feed (src/main.go:750-769); the other modes look the creators up
\* (src/main.go:802, 841) and print the summary, the CSV rows or the
\* repositories' descriptions (src/main.go:807-821, 844-865).
MainNext ==
  \/ ParseFlags
  \/ Help
  \/ CreateConfig
  \/ LoadConfig
  \/ Validate
  \/ Connect
  \/ MainFetch
  \/ SingleFetch
  \/ SingleLookupSends
  \/ SingleLookupReturns
  \/ EnterOrchestrator
  \/ Spawn
  \/ StartCloser
  \/ \E i \in Tasks : Worker(i)
  \/ Close
  \/ Collect
  \/ Return
  \/ LeaveOrchestrator
  \/ FeedStep
  \/ SummaryEnter
  \/ SummaryStep
  \/ SummaryReturn
  \/ DisplaySummary
  \/ CSVHeaderStep
  \/ CSVStep
  \/ DisplayStep
  \/ OutputExit
  \/ DisplayExit

MainSpec == MainInit /\ [][MainNext]_vars

\* ------------------------------------------------ the functions taken alone
\* The ages, in days, around which the timestamps given to isOlderThan lie,
\* and the months it is asked about (6 and 12 are the ones the program uses).
AgeDays == {0, 29, 30, 31, 179, 180, 181, 359, 360, 361}
MonthsAsked == {1, 6, 12}

IsOlderThanCalls ==
  { [fn |-> "isOlderThan", now |-> Now, t |-> Now - (d * 24 + o) * Hour, months |-> m] :
      d \in AgeDays, o \in {-1, 0, 1}, m \in MonthsAsked }

\* The instants given to calculateMonthsDifference.
DatePool ==
  { Date(y, m, d, h) : y \in {2023, 2024}, m \in {1, 2, 12}, d \in {1, 15, 20, 28},
                       h \in {0, 23} }

MonthsDifferenceCalls ==
  { [fn |-> "calculateMonthsDifference", start |-> a, end |-> b] :
      a \in DatePool, b \in DatePool }

ResponseKinds == {"ok", "transport", "status", "malformed"}

\* The creation instants of the repositories looked up alone.
CreatedPool == {Date(2023, 1, 1, 0), Date(2023, 12, 15, 23), Date(2024, 2, 29, 13)}

GetFirstCommitCalls ==
  { [fn |-> "getFirstCommit",
     s |-> Lookup(p, Response(rk, <<c>>, NoURL), Response(ck, vs, nx))] :
      p \in 1..3, rk \in ResponseKinds, c \in CreatedPool, ck \in ResponseKinds,
      vs \in SeqsUpTo({"", "alice", "bob"}, MaxCommits), nx \in {NoURL, 1} }

\* The queries of the commit-list requests of one getFirstCommit call, in
\* order; created_on is read from the body of the repository GET.
CommitListQueries(s) ==
  LET commits == SelectSeq(getFirstCommit(s).reqs, LAMBDA e : e = "commits") IN
  [j \in 1..Len(commits) |->
     CommitListQuery(Unmarshal(makeRequest(s.repo).data).values[1])]

CallInit ==
  /\ NoOrchestrator
  /\ NoListCall
  /\ NoMain
  /\ NoOutput
  /\ fcall \in IsOlderThanCalls \cup MonthsDifferenceCalls \cup GetFirstCommitCalls
  /\ fret = [done |-> FALSE]

CallIsOlderThan ==
  /\ fcall.fn = "isOlderThan"
  /\ ~fret.done
  /\ fret' = [done |-> TRUE, value |-> isOlderThan(fcall.now, fcall.t, fcall.months)]
  /\ UNCHANGED <<ovars, pvars, netlog, mvars, listing, stdout, stats, fcall>>

CallCalculateMonthsDifference ==
  /\ fcall.fn = "calculateMonthsDifference"
  /\ ~fret.done
  /\ fret' = [done |-> TRUE, value |-> calculateMonthsDifference(fcall.start, fcall.end)]
  /\ UNCHANGED <<ovars, pvars, netlog, mvars, listing, stdout, stats, fcall>>

CallGetFirstCommit ==
  /\ fcall.fn = "getFirstCommit"
  /\ ~fret.done
  /\ fret' = [done |-> TRUE, value |-> getFirstCommit(fcall.s),
              queries |-> CommitListQueries(fcall.s)]
  /\ UNCHANGED <<ovars, pvars, netlog, mvars, listing, stdout, stats, fcall>>

CallNext ==
  \/ CallIsOlderThan
  \/ CallCalculateMonthsDifference
  \/ CallGetFirstCommit

CallSpec == CallInit /\ [][CallNext]_vars

\* --------------------------------------------------------------- the claims
\* The results deposited so far, collected ones first.
Deposited == repoResults \o results
ResultsOf(r) == {j \in 1..Len(Deposited) : Deposited[j].Repository = r}
InGate == {i \in Tasks : tpc[i] \in {"lookup", "deposit", "release"}}
HasDeposited(i) == i \in Tasks /\ tpc[i] \in {"release", "return", "done"}

\* C1: when processRepositoriesConcurrently returns, its result list holds
\* exactly K entries, every input repository occurs in it exactly once, and
\* every task has deposited its result and finished.
C1_ExactlyOneResultPerRepository ==
  mpc = "returned" =>
    /\ Len(repoResults) = K
    /\ \A i \in Tasks :
         Cardinality({j \in 1..Len(repoResults) : repoResults[j].Repository = repos[i]}) = 1
    /\ \A i \in Tasks : tpc[i] = "done"
    /\ results = <<>>

C1_Witness ==
  /\ mpc = "returned"
  /\ K = 2
  /\ \E j \in 1..Len(repoResults) : repoResults[j].Error # NoError
  /\ \E j \in 1..Len(repoResults) : repoResults[j].Error = NoError

\* C2: at every instant at most maxConcurrency tasks are between acquiring
\* and releasing the semaphore (their lookup possibly outstanding).
C2_AtMostLInLookup ==
  /\ Cardinality(InGate) <= maxConcurrency
  /\ semaphore = Cardinality(InGate)

C2_Witness ==
  /\ maxConcurrency < K
  /\ Cardinality({i \in Tasks : tpc[i] = "lookup"}) = maxConcurrency
  /\ \E i \in Tasks : tpc[i] = "acquire"

\* C3: a failed lookup (invalid name, repository GET error, commit request
\* error, malformed payload, empty commit window) gives a result with the
\* sentinel creator and the error recorded; a lookup that succeeds with an
\* empty author name gives the sentinel and no error; any other lookup gives
\* the last commit's author.  Each result depends on its own repository's
\* lookup alone, no task panics, and a task that is past its deposit has
\* exactly one result in flight or collected.
LookupFailed(s) ==
  \/ s.parts # 2
  \/ s.repo.kind # "ok"
  \/ s.commits.kind # "ok"
  \/ s.commits.values = <<>>
LastAuthor(s) == s.commits.values[Len(s.commits.values)]

C3_FailureGivesSentinel ==
  /\ ~panicked
  /\ \A i \in Tasks :
       /\ HasDeposited(i) => Cardinality(ResultsOf(repos[i])) = 1
       /\ ~HasDeposited(i) => ResultsOf(repos[i]) = {}
       /\ \A j \in ResultsOf(repos[i]) :
            LET r == Deposited[j]
                s == served[i]
            IN IF LookupFailed(s)
               THEN r.Creator = UnableToDetermine /\ r.Error # NoError
               ELSE /\ r.Error = NoError
                    /\ r.Creator = IF LastAuthor(s) = "" THEN UnableToDetermine
                                    ELSE LastAuthor(s)

C3_Witness ==
  /\ mpc = "returned"
  /\ \E i, j \in Tasks :
       /\ served[i].commits.kind = "transport"
       /\ served[j].commits.values = <<"", "bob">>
       /\ \E a, b \in 1..Len(repoResults) :
            /\ repoResults[a].Repository = repos[i]
            /\ repoResults[a].Creator = UnableToDetermine
            /\ repoResults[b].Repository = repos[j]
            /\ repoResults[b].Creator = "bob"

\* C4: under fair scheduling, with every lookup returning, every spawned task
\* is eventually admitted, every admitted task eventually releases its slot,
\* and processRepositoriesConcurrently eventually returns.
C4_EventuallyReturns ==
  /\ <>(mpc = "returned")
  /\ \A i \in 1..MaxK :
       /\ (i \in Tasks /\ tpc[i] = "acquire") ~> (i \in Tasks /\ tpc[i] = "lookup")
       /\ (i \in Tasks /\ tpc[i] = "lookup") ~> (i \in Tasks /\ tpc[i] = "return")

C4_Witness ==
  /\ mpc = "returned"
  /\ maxConcurrency < K
  /\ \A i \in Tasks : tpc[i] = "done"

IsChain ==
  \A i \in 1..Len(pages) :
    /\ pages[i].kind = "ok"
    /\ pages[i].next = IF i < Len(pages) THEN i + 1 ELSE NoURL

RECURSIVE ConcatPages(_)
\* V_1 ++ ... ++ V_n
ConcatPages(n) == IF n = 0 THEN <<>> ELSE ConcatPages(n - 1) \o pages[n].values

\* C6: over a chain of N pages with every request succeeding, the list call
\* returns V_1 ++ ... ++ V_N and no error, having issued exactly the N
\* requests for pages 1..N in order (none after the page without a next).
C6_ChainIsConcatenated ==
  (ppc = "returned" /\ IsChain) =>
    /\ ret.err = NoError
    /\ ret.values = ConcatPages(Len(pages))
    /\ requests = [i \in 1..Len(pages) |-> i]

C6_Witness ==
  /\ ppc = "returned"
  /\ IsChain
  /\ Len(pages) >= 2
  /\ \A i \in 1..Len(pages) : pages[i].values # <<>>
  /\ Len(ret.values) = Len(pages)

\* C7: once a requested page fails (transport error, status, undecodable
\* body) the call has returned: that request is its last, it returns the
\* error and a nil collection, whatever it had accumulated.
C7_FailureDiscardsAccumulated ==
  /\ \A a \in 1..Len(requests) :
       pages[requests[a]].kind # "ok" =>
         /\ a = Len(requests)
         /\ ppc = "returned"
         /\ ret.err # NoError
         /\ ret.values = <<>>
  /\ (ppc = "returned" /\ ret.err # NoError) =>
       /\ requests # <<>>
       /\ pages[requests[Len(requests)]].kind # "ok"

C7_Witness ==
  /\ ppc = "returned"
  /\ ret.err # NoError
  /\ Len(requests) >= 2
  /\ all # <<>>
  /\ ret.values = <<>>

RECURSIVE EndsWithin(_, _)
\* Following the cursors from page u reaches a failing page or an empty
\* cursor within n requests.
EndsWithin(u, n) ==
  IF u = NoURL THEN TRUE
  ELSE IF n = 0 THEN FALSE
  ELSE IF pages[u].kind # "ok" THEN TRUE
  ELSE EndsWithin(pages[u].next, n - 1)

\* C8 as claimed: the traversal never follows a cursor loop, whatever the
\* server does: it requests no URL twice.
C8_NeverFollowsACursorLoop ==
  \A a, b \in 1..Len(requests) : a # b => requests[a] # requests[b]

\* C8 as amended: the traversal terminates whenever the server's cursors,
\* followed from the first page, reach a failing page or an empty cursor.
C8_TerminatesOnFiniteChains ==
  (ppc = "loop" /\ EndsWithin(1, Len(pages))) ~> (ppc = "returned")

C8_Witness ==
  /\ ppc = "returned"
  /\ EndsWithin(1, Len(pages))
  /\ Len(requests) = 3
\* The term occurs in the name at some offset, letter case apart.
OccursIn(term, name) ==
  \E k \in 0..(Len(name) - Len(term)) :
    \A j \in 1..Len(term) : ToLowerChar(name[k + j]) = ToLowerChar(term[j])

\* The repository passes the filters given on the command line.
Survives(name) ==
  IF includeTerms # {}
  THEN \E t \in includeTerms : OccursIn(t, name)
  ELSE \A t \in excludeTerms : ~OccursIn(t, name)

\* The command line holds an include or an exclude term.
TermsGiven == includeTerms # {} \/ excludeTerms # {}

\* The fetched repositories that pass the filter, in their fetched order.
Survivors == SelectSeq(allRepos, Survives)

\* C9: in the all-repositories flow the include/exclude filter is applied to
\* the fetched list before enrichment and before any output pass: a run given
\* terms is taken up and not turned away, the list handed to the enrichment
\* and walked by the output pass is the fetched list filtered, and every
\* request issued for a repository (repository GET, commit query, branch
\* listing) is for a fetched repository that passes the filter.
C9_FilterAppliedBeforeEnrichment ==
  cmd.repoName = NoName =>
    /\ TermsGiven => phase # "usage"
    /\ phase \in {"enriching", "start", "loop", "returned", "done"} => repos = Survivors
    /\ \A e \in netlog :
         /\ \E j \in 1..Len(allRepos) : allRepos[j] = e[2]
         /\ Survives(e[2])

\* C10: after the filter pass the surviving list holds exactly the fetched
\* repositories that pass the filter (include terms win over exclude terms),
\* in their fetched order, and the precedence warning was printed exactly
\* when both kinds of terms were given; the two examples of the claim, and a
\* term that differs from the name in the case of an accented letter.
C10_FilterPass ==
  phase = "filtered" =>
    /\ \A j \in 1..Len(allRepos) :
         Survives(allRepos[j]) <=> (\E a \in 1..Len(repos) : repos[a] = allRepos[j])
    /\ \A a, b \in 1..Len(repos) :
         a < b => \E i, j \in 1..Len(allRepos) :
                    i < j /\ allRepos[i] = repos[a] /\ allRepos[j] = repos[b]
    /\ Len(repos) <= Len(allRepos)
    /\ warned <=> (includeTerms # {} /\ excludeTerms # {})
    /\ (allRepos = <<ApiCore, WebUi, ArchiveOld>> /\ excludeTerms = {TermArchive}) =>
         /\ includeTerms = {} => repos = <<ApiCore, WebUi>>
         /\ includeTerms = {TermApi} => repos = <<ApiCore>>
    /\ (includeTerms = {} /\ TermCafe \in excludeTerms) =>
         \A a \in 1..Len(repos) : repos[a] # CafeMenu
    /\ (includeTerms = {TermCafe} /\ \E j \in 1..Len(allRepos) : allRepos[j] = CafeMenu) =>
         repos = <<CafeMenu>>

C10_Witness ==
  /\ phase = "filtered"
  /\ allRepos = <<ApiCore, WebUi, ArchiveOld>>
  /\ includeTerms = {TermApi}
  /\ excludeTerms = {TermArchive}
  /\ repos = <<ApiCore>>
  /\ warned
\* C18: the list processRepositoriesConcurrently returns holds the
\* repositories in the order of its input, whatever the interleaving.
C18_ResultsInInputOrder ==
  mpc = "returned" => [j \in 1..Len(repoResults) |-> repoResults[j].Repository] = repos

\* C19: the results channel never holds more than len(repos) results; a task
\* that is about to deposit can always do so at once, on an open channel;
\* the channel is closed only when every task has deposited and finished;
\* nothing panics, and the collector has every result when it stops.
C19_DepositNeverBlocks ==
  /\ Len(results) <= K
  /\ ~panicked
  /\ \A i \in Tasks : tpc[i] = "deposit" => (~closed /\ Len(results) < ResultsCapacity)
  /\ closed => (\A i \in Tasks : tpc[i] = "done") /\ spawned = K
  /\ mpc = "returned" => Len(repoResults) = K

C19_Witness ==
  /\ K = 2
  /\ maxConcurrency = 1
  /\ Len(results) = 1
  /\ repoResults = <<>>
  /\ \E i \in Tasks : tpc[i] = "deposit"
Returned(f) == fret.done /\ fcall.fn = f

\* C11: isOlderThan(t, m) is true exactly when the time since t is strictly
\* greater than m * 30 * 24 hours: with m = 6 a timestamp 181 days old is
\* stale, one 179 days old is not, one exactly 180 days old is not; the same
\* with m = 12 and 360 days.
C11_StaleIffStrictlyOlder ==
  Returned("isOlderThan") =>
    LET age == fcall.now - fcall.t
        day == 24 * Hour
    IN /\ fret.value = (age > fcall.months * 30 * day)
       /\ \A m \in {6, 12} :
            fcall.months = m =>
              /\ age = (m * 30 + 1) * day => fret.value = TRUE
              /\ age = (m * 30 - 1) * day => fret.value = FALSE
              /\ age = m * 30 * day => fret.value = FALSE

C11_Witness ==
  /\ Returned("isOlderThan")
  /\ fcall.months = 6
  /\ fcall.now - fcall.t = 180 * 24 * Hour
  /\ fret.value = FALSE

\* C12: calculateMonthsDifference(start, end) is the difference of the years
\* times 12 plus the difference of the months, less one exactly when the day
\* of end is before the day of start; from 2023-01-15 to 2024-12-01 it is
\* 22, from 2023-01-20 to 2024-01-15 it is 11.
C12_MonthsDifference ==
  Returned("calculateMonthsDifference") =>
    /\ \A y1, y2 \in {2023, 2024}, m1, m2 \in {1, 2, 12}, d1, d2 \in {1, 15, 20, 28},
          h1, h2 \in {0, 23} :
         (fcall.start = Date(y1, m1, d1, h1) /\ fcall.end = Date(y2, m2, d2, h2)) =>
           fret.value = (y2 - y1) * 12 + (m2 - m1) - (IF d2 < d1 THEN 1 ELSE 0)
    /\ (fcall.start = Date(2023, 1, 15, 0) /\ fcall.end = Date(2024, 12, 1, 0)) =>
         fret.value = 22
    /\ (fcall.start = Date(2023, 1, 20, 0) /\ fcall.end = Date(2024, 1, 15, 0)) =>
         fret.value = 11

C12_Witness ==
  /\ Returned("calculateMonthsDifference")
  /\ fcall.start = Date(2023, 1, 20, 0)
  /\ fcall.end = Date(2024, 1, 15, 0)
  /\ fret.value = 11

\* What C17 says of a getFirstCommit call that was given the answers s and
\* came back with out, having issued the commit-list queries qs.
FirstCommitContract(s, out, qs) ==
  /\ Len(out.reqs) >= 1
  /\ out.reqs[1] = "repository"
  /\ IF s.repo.kind # "ok"
     THEN /\ out.err # NoError
          /\ out.reqs = <<"repository">>
          /\ qs = <<>>
     ELSE LET created == s.repo.values[1] IN
          /\ out.reqs = <<"repository", "commits">>
          /\ Len(qs) = 1
          /\ ParseTimestamp(qs[1].since) = created - 24 * Hour
          /\ ParseTimestamp(qs[1].until) = created + 30 * 24 * Hour
          /\ (s.commits.kind = "ok" /\ s.commits.values # <<>>) =>
               /\ out.err = NoError
               /\ out.author = s.commits.values[Len(s.commits.values)]
          /\ (s.commits.kind = "ok" /\ s.commits.values = <<>>) =>
               out.err = "no commits found near creation date"

\* C17 as stated: every getFirstCommit call first fetches the repository;
\* if that fails it returns the error without a commit query; otherwise it
\* issues exactly one commit-list request, for the window from one day
\* before to thirty days after the creation date, never follows its next
\* cursor, returns the last element of a non-empty page and fails with the
\* no-commits-found error on an empty one.
C17_AlwaysFetchesTheRepositoryFirst ==
  Returned("getFirstCommit") => FirstCommitContract(fcall.s, fret.value, fret.queries)

\* C17, amended: the above holds for a full name of exactly two "/"-separated
\* parts; for any other full name the call fails with the name-format error
\* without any request.
C17_FirstCommitOfWellFormedName ==
  Returned("getFirstCommit") =>
    IF fcall.s.parts = 2
    THEN FirstCommitContract(fcall.s, fret.value, fret.queries)
    ELSE /\ fret.value.err = "invalid repository name format"
         /\ fret.value.reqs = <<>>
         /\ fret.queries = <<>>

C17_Witness ==
  /\ Returned("getFirstCommit")
  /\ fcall.s.parts = 2
  /\ fcall.s.repo.kind = "ok"
  /\ fcall.s.repo.values = <<Date(2023, 1, 1, 0)>>
  /\ fcall.s.commits = Response("ok", <<"alice", "bob">>, 1)
  /\ fret.value.author = "bob"
  /\ fret.value.reqs = <<"repository", "commits">>
  /\ fret.queries[1].since = <<2022, 12, 31, 0>>
  /\ fret.queries[1].until = <<2023, 1, 31, 0>>

\* C13: the lines the stale-branch feed prints for a repository are exactly
\* fullName:branchName for each listed branch, in listing order, whose name
\* is none of main, master, develop and whose date is more than 6 months
\* old; a repository whose listing fails prints nothing, and the feed goes on
\* to every repository after it.
C13_FeedLines ==
  mode = "output" =>
    /\ outIdx >= 1 =>
         LET repo == Repository(repos[outIdx])
             stale == SelectSeq(listing.branches,
                        LAMBDA b : /\ b.Name # <<"main">>
                                   /\ b.Name # <<"master">>
                                   /\ b.Name # <<"develop">>
                                   /\ Now - b.Date > 6 * 30 * 24 * Hour)
         IN IF listing.err # NoError THEN stdout = <<>>
            ELSE stdout = [k \in 1..Len(stale) |->
                             repo.FullName \o <<":">> \o stale[k].Name \o <<Newline>>]
    /\ \A j \in 1..outIdx : <<"branches", repos[j]>> \in netlog
    /\ phase = "returned" => outIdx = Len(repos)

C13_Witness ==
  /\ mode = "output"
  /\ outIdx = 2
  /\ listing = Listing(<<Branch(<<"hotfix", Comma, "1">>, Now - 181 * 24 * Hour, <<"alice">>),
                         Branch(<<"develop">>, Now - 200 * 24 * Hour, <<"bob">>)>>,
                       NoError)
  /\ stdout = << <<"w", "s", "/">> \o ApiCore \o <<":", "hotfix", Comma, "1", Newline>> >>

\* C14: whatever listings fail, TotalRepos is the length of the list and
\* OldRepos + RecentRepos add up to it; every iteration adds to
\* TotalBranches the length of the listing when it succeeds and nothing when
\* it fails, and OldBranches + RecentBranches = TotalBranches; the loop
\* reaches the last repository and the function returns no error.
C14_SummaryCounts ==
  /\ [](mode = "summary" /\ phase \in {"loop", "returned"} =>
          /\ stats.TotalRepos = Len(repos)
          /\ stats.OldRepos + stats.RecentRepos = outIdx
          /\ stats.OldBranches + stats.RecentBranches = stats.TotalBranches
          /\ phase = "returned" =>
               /\ outIdx = Len(repos)
               /\ stats.OldRepos + stats.RecentRepos = stats.TotalRepos
               /\ fret.value = stats
               /\ fret.err = NoError)
  /\ [][(mode = "summary" /\ outIdx' = outIdx + 1) =>
          stats'.TotalBranches = stats.TotalBranches
             + (IF listing'.err = NoError THEN Len(listing'.branches) ELSE 0)]_vars

C14_Witness ==
  /\ mode = "summary"
  /\ phase = "returned"
  /\ Len(repos) = 2
  /\ listing.err # NoError
  /\ stats.TotalBranches = 2
  /\ stats.OldBranches = 1
  /\ stats.OldRepos = 1
  /\ fret.err = NoError

\* The columns a CSV reader finds in a row: the row is cut at the commas
\* outside double quotes and ends at the first newline outside them.
RECURSIVE ParseCSV(_, _, _)
ParseCSV(row, field, quoted) ==
  IF row = <<>> THEN <<field>>
  ELSE LET c == Head(row) IN
       IF c = Quote THEN ParseCSV(Tail(row), Append(field, c), ~quoted)
       ELSE IF c = Comma /\ ~quoted THEN <<field>> \o ParseCSV(Tail(row), <<>>, quoted)
       ELSE IF c = Newline /\ ~quoted THEN <<field>>
       ELSE ParseCSV(Tail(row), Append(field, c), quoted)

Columns(row) == ParseCSV(row, <<>>, FALSE)

\* The column of the header that is titled Branch Name.
BranchNameColumn == CHOOSE k \in DOMAIN Columns(CSVHeader) : Columns(CSVHeader)[k] = <<"Branch Name">>

\* The rows outputRepositoryCSV printed for the latest repository.
RowsPrinted == mode = "csv" /\ outIdx >= 1

\* C15: with --repo-only, outputRepositoryCSV prints exactly one row and
\* lists no branches; otherwise a listing of B branches gives exactly B rows,
\* in listing order, and a failed listing exactly one row with the error
\* marker in the branch-name column; the loop goes on to every repository
\* after a failure.
C15_RowsPerRepository ==
  /\ RowsPrinted =>
       IF repoOnly
       THEN /\ Len(stdout) = 1
            /\ netlog = {}
       ELSE /\ \A j \in 1..outIdx : <<"branches", repoResults[j].Repository>> \in netlog
            /\ IF listing.err # NoError
               THEN /\ Len(stdout) = 1
                    /\ Head(Columns(stdout[1])[BranchNameColumn]) = "ERROR: "
               ELSE /\ Len(stdout) = Len(listing.branches)
                    /\ \A k \in 1..Len(stdout) :
                         Columns(stdout[k])[BranchNameColumn] = escapeCSV(listing.branches[k].Name)
  /\ (mode = "csv" /\ phase = "returned") => outIdx = Len(repoResults)

C15_Witness ==
  /\ RowsPrinted
  /\ ~repoOnly
  /\ outIdx = 2
  /\ listing.err = "API request failed with status"
  /\ Len(stdout) = 1
  /\ Columns(stdout[1])[BranchNameColumn] = <<"ERROR: ", "API request failed with status: 404">>

\* C16: every row printed in CSV mode, whether a branch row, a repository-only
\* row or the row of a failed listing, has the columns of the header: 13.
C16_EveryRowHasTheHeaderColumns ==
  mode = "csv" =>
    \A k \in 1..Len(stdout) :
      /\ Len(Columns(stdout[k])) = Len(Columns(CSVHeader))
      /\ Len(Columns(stdout[k])) = 13
====
